---- MODULE Spec2Model ----
(***************************************************************************)
(* Model of the DHCP server's TransactionManager                           *)
(* (src/src/transactions/manager.rs, src/src/transactions/transaction.rs). *)
(*                                                                         *)
(* The manager keeps an index xid -> storage address and stores            *)
(* Transaction and Lease records in a RuntimeStorage with three pools      *)
(* (Transactions, PendingLeases, Leases).  Every manager method is         *)
(* modelled as a relation: the set of outcomes [index, storage, ok] it can *)
(* produce from a given index and storage, the nondeterminism being the    *)
(* outcome of each storage.store call (an error, or any unused address).   *)
(*                                                                         *)
(* The second part models the address pool of a subnet                     *)
(* (src/src/leases/ip_subnet.rs) and the allocators that draw from it      *)
(* (src/src/allocators), in the same way: every method is the set of       *)
(* outcomes it can produce, a panic being one of them.                     *)
(***************************************************************************)
EXTENDS Integers, FiniteSets, Sequences, TLC

VARIABLES index, storage, now, mutex, frames, guards, threads,
          subnet, overflow_checks, binary_search, shared_storage, dynamic_allocator,
          static_allocator, granted, static_draft, codec, output

\* the tasks' side of the state: the holder of the Mutex<TransactionManager>
\* and, for each task that is inside a call, the frame of that call; then, for
\* the view in which only the locks are followed, the holder and the poison
\* flag of every Mutex and, for each task, the lock steps it has left
conc == <<mutex, frames, guards, threads>>

\* the transaction manager's side of the state
tm == <<index, storage, now, mutex, frames, guards, threads>>

\* the subnets' and allocators' side of the state: an Ipv4Subnet held on its
\* own, whether the build checks integer overflow and which binary search
\* its standard library has, the storage the allocators share, the two
\* allocators, the addresses drafted so far, the last draft of the static
\* allocator, the byte string or options record the option codec holds, and
\* the output packet of the last PacketContext the responder hook ran on
alloc == <<subnet, overflow_checks, binary_search, shared_storage, dynamic_allocator,
          static_allocator, granted, static_draft, codec, output>>

vars == <<index, storage, now, mutex, frames, guards, threads,
          subnet, overflow_checks, binary_search, shared_storage, dynamic_allocator,
          static_allocator, granted, static_draft, codec, output>>

\* ------------------------------------------------------------------ bounds
\* the storage has MaxAddr addresses
MaxAddr == 3

\* the clock stops at MaxTime seconds
MaxTime == 60

\* ------------------------------------------------------- program constants
\* chrono::Duration::seconds(30) in Transaction::outdated
TXN_TIMEOUT == 30

\* const ADDRESS : Ipv4Addr = Ipv4Addr::new(127, 0, 0, 1)
ADDRESS == <<127, 0, 0, 1>>

\* Ipv4Addr::BROADCAST, the "other server" of the manager's test
OTHER_SERVER == <<255, 255, 255, 255>>

\* Ipv4Addr::is_unspecified: 0.0.0.0
UNSPECIFIED == <<0, 0, 0, 0>>

\* Transaction::init_new: pending_lease_address: 0 means "no lease bound"
NO_LEASE == 0

DHCPDISCOVER == 1

DHCPOFFER == 2

DHCPREQUEST == 3

DHCPACK == 5

DHCPNAK == 6

PENDING_LEASE_POOL_NAME == "PendingLeases"

LEASE_POOL_NAME == "Leases"

TRANSACTION_POOL_NAME == "Transactions"

\* the clock is observed at multiples of the timeout: ages 0, 30 and 60
TickStep == TXN_TIMEOUT

\* ------------------------------------------------------------ input sets
\* the task of the packet handlers and the task of the watchout loop
Tasks == {"handler", "watchout"}

\* the tasks that take locks: the two above and the task of the test that
\* calls sync on the storage
Threads == Tasks \cup {"sync"}

\* the Mutexes: the one around the manager, the manager's index and storage,
\* and the same three of the TransactionManager of dhcp_transactions.rs
Mutexes == {"manager", "index", "storage",
            "legacy_manager", "legacy_index", "legacy_storage"}

\* the xids of two clients
Xids == {1, 2}

\* addresses the storage hands out; 0 is never handed out (it is NO_LEASE)
Addrs == 1..MaxAddr

\* the lease offered to bind_lease, identified by its IPv4 address
\* (Ipv4Addr::new(192, 168, 0, 3) in the manager's test)
LeaseIps == {<<192, 168, 0, 3>>}

None == [some |-> FALSE]

Some(x) == [some |-> TRUE, v |-> x]

ServerIdentifiers == {None, Some(UNSPECIFIED), Some(ADDRESS), Some(OTHER_SERVER)}

\* DhcpV4Packet, reduced to the fields the manager reads
Packet(xid, mt, sid) == [xid |-> xid, message_type |-> mt, server_identifier |-> sid]

\* packets of clients: DISCOVER, REQUEST with any option 54, and a packet
\* with no message type (the handlers' catch-all branch)
InputPackets ==
  {Packet(x, Some(DHCPDISCOVER), None) : x \in Xids}
  \cup {Packet(x, Some(DHCPREQUEST), sid) : x \in Xids, sid \in ServerIdentifiers}
  \cup {Packet(x, None, None) : x \in Xids}

\* packets of this server: OFFER, ACK, NAK, carrying its identifier, and a
\* packet with no message type
OutputPackets ==
  {Packet(x, Some(mt), Some(ADDRESS)) : x \in Xids, mt \in {DHCPOFFER, DHCPACK, DHCPNAK}}
  \cup {Packet(x, None, None) : x \in Xids}

\* ---------------------------------------------------------------- records
Null == [kind |-> "null"]

\* Transaction::init_new alone, the set_state call left out: C6 depends on
\* the state a new transaction is given
NewTransaction_Undefined(xid, time, state) ==
  [kind |-> "transaction", state |-> "UNDEFINED", start |-> time,
   pending_lease_address |-> NO_LEASE, uid |-> 0, xid |-> xid]

\* Transaction::init_new followed by set_state(state)
NewTransaction(xid, time, state) ==
  [kind |-> "transaction", state |-> state, start |-> time,
   pending_lease_address |-> NO_LEASE, uid |-> 0, xid |-> xid]

\* LeaseData::from(lease): uid 0 until stored
NewLeaseData(ip) == [kind |-> "lease", address |-> ip, uid |-> 0]

\* outdated with >= in place of >: C5 depends on the comparison being strict
Outdated_AtLeast(tr, t) == (t - tr.start) >= TXN_TIMEOUT

\* Transaction::outdated at time t
Outdated(tr, t) == (t - tr.start) > TXN_TIMEOUT

\* ------------------------------------------------- RuntimeStorage (fp_core)
\* A stored record remembers its pool and carries its address as uid
\* (Storable::set_uid).
FreeAddrs(sto) == {a \in Addrs : sto[a] = Null}

\* storage.store(data, pool): Err, or Ok(address) for an unused address
StorageStore(sto, data, pool) ==
  {[ok |-> FALSE, addr |-> 0, storage |-> sto]}
  \cup
  {[ok |-> TRUE, addr |-> a,
    storage |-> [sto EXCEPT ![a] = [pool |-> pool, data |-> [data EXCEPT !.uid = a]]]]
     : a \in FreeAddrs(sto)}

\* storage.get(address)
StorageGet(sto, a) ==
  IF a \in Addrs /\ sto[a] # Null
  THEN [ok |-> TRUE, data |-> sto[a].data]
  ELSE [ok |-> FALSE, data |-> Null]

\* storage.delete(address, pool)
StorageDelete(sto, a, pool) ==
  IF a \in Addrs /\ sto[a] # Null /\ sto[a].pool = pool
  THEN [sto EXCEPT ![a] = Null]
  ELSE sto

\* ------------------------------------------------------ index (HashMap)
IndexInsert(idx, xid, a) ==
  [k \in DOMAIN idx \cup {xid} |-> IF k = xid THEN a ELSE idx[k]]

IndexRemove(idx, xid) == [k \in DOMAIN idx \ {xid} |-> idx[k]]

\* outcome of a manager method: the index and storage it leaves, whether it
\* returned Ok, and whether a storage.store call failed in it (every store
\* call is followed by `?`, so at most one fails per call of a method)
Out(idx, sto, ok) == [index |-> idx, storage |-> sto, ok |-> ok, fault |-> FALSE]

\* outcome Err(...) of a method in which storage.store failed
Fault(idx, sto) == [index |-> idx, storage |-> sto, ok |-> FALSE, fault |-> TRUE]

\* ------------------------------------------------- TransactionManager
\* is_in
IsIn(idx, xid) == xid \in DOMAIN idx

\* get_transaction_address
GetTransactionAddress(idx, xid) == IF xid \in DOMAIN idx THEN Some(idx[xid]) ELSE None

\* get_transaction
GetTransaction(idx, sto, xid) ==
  LET address == GetTransactionAddress(idx, xid) IN
  IF ~address.some THEN [ok |-> FALSE, t |-> Null]
  ELSE LET g == StorageGet(sto, address.v) IN
       IF g.ok /\ g.data.kind = "transaction"
       THEN [ok |-> TRUE, t |-> g.data]
       ELSE [ok |-> FALSE, t |-> Null]

\* get_transaction_lease
GetTransactionLease(idx, sto, xid) ==
  LET tr == GetTransaction(idx, sto, xid) IN
  IF ~tr.ok THEN [ok |-> FALSE, lease |-> Null]
  ELSE LET g == StorageGet(sto, tr.t.pending_lease_address) IN
       IF g.ok /\ g.data.kind = "lease"
       THEN [ok |-> TRUE, lease |-> g.data]
       ELSE [ok |-> FALSE, lease |-> Null]

\* initiate_transaction
InitiateTransaction(idx, sto, xid, time) ==
  IF xid \in DOMAIN idx THEN {Out(idx, sto, FALSE)}
  ELSE {IF s.ok THEN Out(IndexInsert(idx, xid, s.addr), s.storage, TRUE)
                ELSE Fault(idx, sto)
          : s \in StorageStore(sto, NewTransaction(xid, time, "PENDING"),
                               TRANSACTION_POOL_NAME)}

\* delete_transaction without the delete in the pending pool: C2 depends on
\* the pending lease being deleted with its transaction
DeleteTransaction_KeepLease(idx, sto, xid) ==
  LET tr == GetTransaction(idx, sto, xid) IN
  IF ~tr.ok THEN Out(idx, sto, FALSE)
  ELSE Out(IndexRemove(idx, xid),
           StorageDelete(sto, tr.t.uid, TRANSACTION_POOL_NAME),
           TRUE)

\* delete_transaction
DeleteTransaction(idx, sto, xid) ==
  LET tr == GetTransaction(idx, sto, xid) IN
  IF ~tr.ok THEN Out(idx, sto, FALSE)
  ELSE Out(IndexRemove(idx, xid),
           StorageDelete(StorageDelete(sto, tr.t.uid, TRANSACTION_POOL_NAME),
                         tr.t.pending_lease_address, PENDING_LEASE_POOL_NAME),
           TRUE)

\* abort
AbortTransaction(idx, sto, xid) == {DeleteTransaction(idx, sto, xid)}

\* commit without delete_transaction: C8 depends on the transaction and its
\* pending lease being deleted before the confirmed lease is stored
CommitTransaction_NoDelete(idx, sto, xid) ==
  LET lease == GetTransactionLease(idx, sto, xid) IN
  IF ~lease.ok THEN {Out(idx, sto, FALSE)}
  ELSE {IF s.ok THEN Out(idx, s.storage, TRUE) ELSE Fault(idx, sto)
          : s \in StorageStore(sto, lease.lease, LEASE_POOL_NAME)}

\* commit
CommitTransaction(idx, sto, xid) ==
  LET lease == GetTransactionLease(idx, sto, xid) IN
  IF ~lease.ok THEN {Out(idx, sto, FALSE)}
  ELSE LET d == DeleteTransaction(idx, sto, xid) IN
       IF ~d.ok THEN {Out(idx, sto, FALSE)}
       ELSE {IF s.ok THEN Out(d.index, s.storage, TRUE) ELSE Fault(d.index, d.storage)
               : s \in StorageStore(d.storage, lease.lease, LEASE_POOL_NAME)}

\* update_transaction_state
UpdateTransactionState(idx, sto, xid, state) ==
  LET address == GetTransactionAddress(idx, xid)
      tr == GetTransaction(idx, sto, xid) IN
  IF ~address.some \/ ~tr.ok THEN {Out(idx, sto, FALSE)}
  ELSE LET sto1 == StorageDelete(sto, address.v, TRANSACTION_POOL_NAME) IN
       {IF s.ok THEN Out(IndexInsert(IndexRemove(idx, xid), xid, s.addr), s.storage, TRUE)
                ELSE Fault(idx, sto1)
          : s \in StorageStore(sto1, [tr.t EXCEPT !.state = state],
                               TRANSACTION_POOL_NAME)}

\* bind_lease without the test of pending_lease_address: C3 depends on it
BindLease_Rebind(idx, sto, xid0, ip) ==
  LET t0 == GetTransaction(idx, sto, xid0) IN
  IF ~t0.ok THEN {Out(idx, sto, FALSE)}
  ELSE
    LET xid == t0.t.xid IN
    UNION {
      IF ~u.ok THEN {u}
      ELSE
        LET t1 == GetTransaction(u.index, u.storage, xid) IN
        IF ~t1.ok THEN {Out(u.index, u.storage, FALSE)}
        ELSE UNION {
          IF ~sl.ok THEN {Fault(u.index, u.storage)}
          ELSE
            LET t2 == [t1.t EXCEPT !.pending_lease_address = sl.addr]
                sto3 == StorageDelete(sl.storage, t2.uid, TRANSACTION_POOL_NAME) IN
            {IF st.ok
               THEN Out(IndexInsert(IndexRemove(u.index, xid), xid, st.addr), st.storage, TRUE)
               ELSE Fault(u.index, sto3)
              : st \in StorageStore(sto3, t2, TRANSACTION_POOL_NAME)}
          : sl \in StorageStore(u.storage, NewLeaseData(ip), PENDING_LEASE_POOL_NAME)}
      : u \in UpdateTransactionState(idx, sto, xid, "BOUND")}

\* bind_lease
BindLease(idx, sto, xid0, ip) ==
  LET t0 == GetTransaction(idx, sto, xid0) IN
  IF ~t0.ok THEN {Out(idx, sto, FALSE)}
  ELSE IF t0.t.pending_lease_address # NO_LEASE THEN {Out(idx, sto, FALSE)}
  ELSE
    LET xid == t0.t.xid IN
    UNION {
      IF ~u.ok THEN {u}
      ELSE
        LET t1 == GetTransaction(u.index, u.storage, xid) IN
        IF ~t1.ok THEN {Out(u.index, u.storage, FALSE)}
        ELSE UNION {
          IF ~sl.ok THEN {Fault(u.index, u.storage)}
          ELSE
            LET t2 == [t1.t EXCEPT !.pending_lease_address = sl.addr]
                sto3 == StorageDelete(sl.storage, t2.uid, TRANSACTION_POOL_NAME) IN
            {IF st.ok
               THEN Out(IndexInsert(IndexRemove(u.index, xid), xid, st.addr), st.storage, TRUE)
               ELSE Fault(u.index, sto3)
              : st \in StorageStore(sto3, t2, TRANSACTION_POOL_NAME)}
          : sl \in StorageStore(u.storage, NewLeaseData(ip), PENDING_LEASE_POOL_NAME)}
      : u \in UpdateTransactionState(idx, sto, xid, "BOUND")}

\* update_transaction_lease
UpdateTransactionLease(idx, sto, xid, ip, time) ==
  LET d == DeleteTransaction(idx, sto, xid) IN
  IF ~d.ok THEN {d}
  ELSE UNION {
    IF ~i.ok THEN {i} ELSE BindLease(i.index, i.storage, xid, ip)
      : i \in InitiateTransaction(d.index, d.storage, xid, time)}

\* handle_discover
HandleDiscover(idx, sto, packet, time) ==
  IF IsIn(idx, packet.xid) THEN {Out(idx, sto, FALSE)}
  ELSE InitiateTransaction(idx, sto, packet.xid, time)

\* handle_request that ignores a REQUEST naming another server: C4 depends
\* on the abort in that branch
HandleRequest_NoAbort(idx, sto, packet) ==
  LET xid == packet.xid
      tr == GetTransaction(idx, sto, xid)
      sid == packet.server_identifier IN
  IF ~tr.ok THEN {Out(idx, sto, FALSE)}
  ELSE IF ~sid.some THEN {Out(idx, sto, FALSE)}
  ELSE IF sid.v = UNSPECIFIED THEN {Out(idx, sto, TRUE)}
  ELSE IF sid.v = ADDRESS
       THEN IF tr.t.state = "WAITING"
            THEN UpdateTransactionState(idx, sto, xid, "REQUESTED")
            ELSE {Out(idx, sto, FALSE)}
       ELSE {Out(idx, sto, TRUE)}

\* handle_request without the test of the state: C26 depends on it
HandleRequest_AnyState(idx, sto, packet) ==
  LET xid == packet.xid
      tr == GetTransaction(idx, sto, xid)
      sid == packet.server_identifier IN
  IF ~tr.ok THEN {Out(idx, sto, FALSE)}
  ELSE IF ~sid.some THEN {Out(idx, sto, FALSE)}
  ELSE IF sid.v = UNSPECIFIED THEN {Out(idx, sto, TRUE)}
  ELSE IF sid.v = ADDRESS THEN UpdateTransactionState(idx, sto, xid, "REQUESTED")
  ELSE AbortTransaction(idx, sto, xid)

\* handle_request
HandleRequest(idx, sto, packet) ==
  LET xid == packet.xid
      tr == GetTransaction(idx, sto, xid)
      sid == packet.server_identifier IN
  IF ~tr.ok THEN {Out(idx, sto, FALSE)}
  ELSE IF ~sid.some THEN {Out(idx, sto, FALSE)}
  ELSE IF sid.v = UNSPECIFIED THEN {Out(idx, sto, TRUE)}
  ELSE IF sid.v = ADDRESS
       THEN IF tr.t.state = "WAITING"
            THEN UpdateTransactionState(idx, sto, xid, "REQUESTED")
            ELSE {Out(idx, sto, FALSE)}
       ELSE AbortTransaction(idx, sto, xid)

\* handle_input
HandleInput(idx, sto, packet, time) ==
  IF packet.message_type = Some(DHCPDISCOVER) THEN HandleDiscover(idx, sto, packet, time)
  ELSE IF packet.message_type = Some(DHCPREQUEST) THEN HandleRequest(idx, sto, packet)
  ELSE {Out(idx, sto, TRUE)}

\* handle_ack
HandleAck(idx, sto, packet) ==
  LET tr == GetTransaction(idx, sto, packet.xid) IN
  IF ~tr.ok THEN {Out(idx, sto, FALSE)}
  ELSE IF tr.t.state = "REQUESTED" THEN CommitTransaction(idx, sto, packet.xid)
  ELSE {Out(idx, sto, TRUE)}

\* handle_nack
HandleNack(idx, sto, packet) == {Out(idx, sto, TRUE)}

\* handle_offer without the test of the state: C1 depends on it
HandleOffer_AnyState(idx, sto, packet) ==
  LET tr == GetTransaction(idx, sto, packet.xid) IN
  IF ~tr.ok THEN {Out(idx, sto, FALSE)}
  ELSE UpdateTransactionState(idx, sto, packet.xid, "WAITING")

\* handle_offer
HandleOffer(idx, sto, packet) ==
  LET tr == GetTransaction(idx, sto, packet.xid) IN
  IF ~tr.ok THEN {Out(idx, sto, FALSE)}
  ELSE IF tr.t.state = "BOUND"
       THEN UpdateTransactionState(idx, sto, packet.xid, "WAITING")
       ELSE {Out(idx, sto, FALSE)}

\* handle_output
HandleOutput(idx, sto, packet) ==
  IF packet.message_type = Some(DHCPOFFER) THEN HandleOffer(idx, sto, packet)
  ELSE IF packet.message_type = Some(DHCPACK) THEN HandleAck(idx, sto, packet)
  ELSE IF packet.message_type = Some(DHCPNAK) THEN HandleNack(idx, sto, packet)
  ELSE {Out(idx, sto, TRUE)}

\* watchout, first half: the keys whose transaction is retrievable and outdated
OutdatedTransactions(idx, sto, time) ==
  {k \in DOMAIN idx :
     LET tr == GetTransaction(idx, sto, k) IN tr.ok /\ Outdated(tr.t, time)}

\* watchout, second half: abort each outdated transaction, stopping at the
\* first error; the keys come in the HashMap's (unspecified) iteration order
RECURSIVE AbortEach(_, _, _)
AbortEach(idx, sto, todo) ==
  IF todo = {} THEN {Out(idx, sto, TRUE)}
  ELSE UNION {
    LET d == DeleteTransaction(idx, sto, k) IN
    IF ~d.ok THEN {d} ELSE AbortEach(d.index, d.storage, todo \ {k})
      : k \in todo}

\* watchout
Watchout(idx, sto, time) == AbortEach(idx, sto, OutdatedTransactions(idx, sto, time))

\* ------------------------------------------------------------ the machine
\* a method call with outcome o takes effect
Effect(o) ==
  /\ index' = o.index
  /\ storage' = o.storage
  /\ UNCHANGED <<now, conc, alloc>>

\* TransactionManager::new, init: empty index, three empty pools
Init ==
  /\ index = <<>>
  /\ storage = [a \in Addrs |-> Null]
  /\ now = 0
  /\ mutex = "free"
  /\ frames = <<>>
  /\ guards = [m \in Mutexes |-> [holder |-> "free", poisoned |-> FALSE]]
  /\ threads = [task \in Threads |-> [status |-> "idle", call |-> "none", steps |-> <<>>]]
  /\ subnet = Null
  /\ overflow_checks = FALSE
  /\ binary_search = "early_return"
  /\ codec = Null
  /\ shared_storage = [a \in Addrs |-> Null]
  /\ dynamic_allocator = [subnets |-> <<>>]
  /\ static_allocator = [subnets |-> <<>>, registry |-> <<>>]
  /\ granted = {}
  /\ static_draft = None
  /\ output = Null

DoHandleInput ==
  \E p \in InputPackets : \E o \in HandleInput(index, storage, p, now) : Effect(o)

DoHandleOutput ==
  \E p \in OutputPackets : \E o \in HandleOutput(index, storage, p) : Effect(o)

DoBindLease ==
  \E x \in Xids, ip \in LeaseIps : \E o \in BindLease(index, storage, x, ip) : Effect(o)

DoUpdateTransactionLease ==
  \E x \in Xids, ip \in LeaseIps :
    \E o \in UpdateTransactionLease(index, storage, x, ip, now) : Effect(o)

DoAbort ==
  \E x \in Xids : \E o \in AbortTransaction(index, storage, x) : Effect(o)

DoCommit ==
  \E x \in Xids : \E o \in CommitTransaction(index, storage, x) : Effect(o)

DoWatchout ==
  \E o \in Watchout(index, storage, now) : Effect(o)

\* the clock read by chrono::Utc::now() advances, by steps that are long
\* against the duration of a call: no call is in progress when it does
Tick ==
  /\ DOMAIN frames = {}
  /\ now + TickStep <= MaxTime
  /\ now' = now + TickStep
  /\ UNCHANGED <<index, storage, conc, alloc>>

Next ==
  \/ DoHandleInput
  \/ DoHandleOutput
  \/ DoBindLease
  \/ DoUpdateTransactionLease
  \/ DoAbort
  \/ DoCommit
  \/ DoWatchout
  \/ Tick

Spec == Init /\ [][Next]_vars

\* ------------------------------------------------------------ observations
\* what a caller sees of the transaction of xid x: ABSENT when the index has
\* no entry, the state of the record get_transaction returns, or LOST when
\* the index has an entry and get_transaction returns Err
StateOf(idx, sto, x) ==
  IF ~IsIn(idx, x) THEN "ABSENT"
  ELSE LET tr == GetTransaction(idx, sto, x) IN
       IF tr.ok THEN tr.t.state ELSE "LOST"

\* the pending_lease_address seen through get_transaction (NO_LEASE when
\* there is no retrievable transaction)
LeaseAddressOf(idx, sto, x) ==
  LET tr == GetTransaction(idx, sto, x) IN
  IF tr.ok THEN tr.t.pending_lease_address ELSE NO_LEASE

\* the addresses holding a record of the given pool
PoolAddrs(sto, pool) == {a \in Addrs : sto[a] # Null /\ sto[a].pool = pool}

RequestFor(x, sid) == Packet(x, Some(DHCPREQUEST), sid)

DiscoverFor(x) == Packet(x, Some(DHCPDISCOVER), None)

OfferFor(x) == Packet(x, Some(DHCPOFFER), Some(ADDRESS))

AckFor(x) == Packet(x, Some(DHCPACK), Some(ADDRESS))

NakFor(x) == Packet(x, Some(DHCPNAK), Some(ADDRESS))

\* the public calls of the manager, with the event each one stands for
Call(op, event, xid, packet, ip) ==
  [op |-> op, event |-> event, xid |-> xid, packet |-> packet, lease |-> ip]

EventOf(p) ==
  IF p.message_type = Some(DHCPDISCOVER) THEN "DISCOVER"
  ELSE IF p.message_type = Some(DHCPREQUEST) THEN
    IF ~p.server_identifier.some THEN "REQUEST(invalid)"
    ELSE IF p.server_identifier.v = UNSPECIFIED THEN "REQUEST(unspecified)"
    ELSE IF p.server_identifier.v = ADDRESS THEN "REQUEST(us)"
    ELSE "REQUEST(other)"
  ELSE IF p.message_type = Some(DHCPOFFER) THEN "OFFER"
  ELSE IF p.message_type = Some(DHCPACK) THEN "ACK"
  ELSE IF p.message_type = Some(DHCPNAK) THEN "NAK"
  ELSE "none"

AnyLease == CHOOSE ip \in LeaseIps : TRUE

Calls ==
  {Call("handle_input", EventOf(p), p.xid, p, AnyLease) : p \in InputPackets}
  \cup {Call("handle_output", EventOf(p), p.xid, p, AnyLease) : p \in OutputPackets}
  \cup {Call("bind_lease", "bind_lease", x, DiscoverFor(x), ip) : x \in Xids, ip \in LeaseIps}
  \cup {Call("update_transaction_lease", "update_transaction_lease", x, DiscoverFor(x), ip)
          : x \in Xids, ip \in LeaseIps}
  \cup {Call("abort", "abort", x, DiscoverFor(x), AnyLease) : x \in Xids}
  \cup {Call("commit", "commit", x, DiscoverFor(x), AnyLease) : x \in Xids}
  \cup {Call("watchout", "timeout", x, DiscoverFor(x), AnyLease) : x \in {1}}

\* the outcomes of a call made on the given index and storage at the given time
OutcomesAt(c, idx, sto, time) ==
  CASE c.op = "handle_input" -> HandleInput(idx, sto, c.packet, time)
    [] c.op = "handle_output" -> HandleOutput(idx, sto, c.packet)
    [] c.op = "bind_lease" -> BindLease(idx, sto, c.xid, c.lease)
    [] c.op = "update_transaction_lease" ->
         UpdateTransactionLease(idx, sto, c.xid, c.lease, time)
    [] c.op = "abort" -> AbortTransaction(idx, sto, c.xid)
    [] c.op = "commit" -> CommitTransaction(idx, sto, c.xid)
    [] c.op = "watchout" -> Watchout(idx, sto, time)

\* the outcomes of a call in the current state
Outcomes(c) == OutcomesAt(c, index, storage, now)

States == {"PENDING", "BOUND", "WAITING", "REQUESTED"}

\* ------------------------------------------------------------------- C1
\* the edges of the state diagram, each with the event that fires it; a
\* direct abort counts as the abort edge, a direct commit as the promotion
\* edge, update_transaction_lease as the bind edge
DiagramEdge(event, from, to) ==
  \/ from = "ABSENT" /\ to = "PENDING" /\ event = "DISCOVER"
  \/ from = "PENDING" /\ to = "BOUND" /\ event \in {"bind_lease", "update_transaction_lease"}
  \/ from = "BOUND" /\ to = "WAITING" /\ event = "OFFER"
  \/ from = "WAITING" /\ to = "REQUESTED" /\ event = "REQUEST(us)"
  \/ from = "WAITING" /\ to = "ABSENT" /\ event = "REQUEST(other)"
  \/ from = "REQUESTED" /\ to = "ABSENT" /\ event \in {"ACK", "commit"}
  \/ from \in States /\ to = "ABSENT" /\ event \in {"timeout", "NAK", "abort"}

CodeEdge(event, from, to) ==
  \/ from = "ABSENT" /\ to = "PENDING" /\ event = "DISCOVER"
  \/ from \in States /\ to = "BOUND" /\ event = "bind_lease"
  \/ from \in States /\ to \in {"BOUND", "ABSENT"} /\ event = "update_transaction_lease"
  \/ from = "BOUND" /\ to = "WAITING" /\ event = "OFFER"
  \/ from = "WAITING" /\ to = "REQUESTED" /\ event = "REQUEST(us)"
  \/ from = "REQUESTED" /\ to = "ABSENT" /\ event = "ACK"
  \/ from \in States \ {"PENDING"} /\ to = "ABSENT" /\ event = "commit"
  \/ from \in States /\ to = "ABSENT" /\ event \in {"REQUEST(other)", "timeout", "abort"}

TransactionsOf(sto, x) ==
  {a \in PoolAddrs(sto, TRANSACTION_POOL_NAME) : sto[a].data.xid = x}

\* the confirmed leases for address ip
ConfirmedFor(sto, ip) ==
  {a \in PoolAddrs(sto, LEASE_POOL_NAME) : sto[a].data.address = ip}

\* what must hold after the exchange: o2 is the outcome of bind_lease, o4 of
\* the REQUEST, o5 of the ACK
ExchangeDone(x, ip, o2, o4, o5) ==
  LET L == LeaseAddressOf(o2.index, o2.storage, x) IN
  /\ ~IsIn(o5.index, x)
  /\ TransactionsOf(o5.storage, x) = {}
  /\ L # NO_LEASE
  /\ L \notin PoolAddrs(o5.storage, PENDING_LEASE_POOL_NAME)
  /\ Cardinality(ConfirmedFor(o5.storage, ip)) = Cardinality(ConfirmedFor(o4.storage, ip)) + 1

\* C2: from every reachable state in which xid x has no transaction, when
\* handle_input(DISCOVER x), bind_lease(x, ip), handle_output(OFFER x),
\* handle_input(REQUEST x naming this server) and handle_output(ACK x) each
\* return Ok in that order, x is in neither the index nor the Transactions
\* pool, the lease bound is no longer in the pending pool and the confirmed
\* pool has one more lease for ip
C2_FullExchange ==
  \A x \in Xids, ip \in LeaseIps :
    ~IsIn(index, x) =>
      \A o1 \in HandleInput(index, storage, DiscoverFor(x), now) : o1.ok =>
      \A o2 \in BindLease(o1.index, o1.storage, x, ip) : o2.ok =>
      \A o3 \in HandleOutput(o2.index, o2.storage, OfferFor(x)) : o3.ok =>
      \A o4 \in HandleInput(o3.index, o3.storage, RequestFor(x, Some(ADDRESS)), now) : o4.ok =>
      \A o5 \in HandleOutput(o4.index, o4.storage, AckFor(x)) : o5.ok =>
        ExchangeDone(x, ip, o2, o4, o5)

\* a reachable state in which one exchange has been completed (a confirmed
\* lease is stored, no pending lease and no transaction is left) and from
\* which the five calls succeed again
C2_Witness ==
  /\ index = <<>>
  /\ PoolAddrs(storage, LEASE_POOL_NAME) # {}
  /\ PoolAddrs(storage, PENDING_LEASE_POOL_NAME) = {}
  /\ \E x \in Xids, ip \in LeaseIps :
       \E o1 \in HandleInput(index, storage, DiscoverFor(x), now) : o1.ok /\
       \E o2 \in BindLease(o1.index, o1.storage, x, ip) : o2.ok /\
       \E o3 \in HandleOutput(o2.index, o2.storage, OfferFor(x)) : o3.ok /\
       \E o4 \in HandleInput(o3.index, o3.storage, RequestFor(x, Some(ADDRESS)), now) : o4.ok /\
       \E o5 \in HandleOutput(o4.index, o4.storage, AckFor(x)) : o5.ok

\* ------------------------------------------------------------------- C3
\* C3: in every reachable state bind_lease on a transaction that has a lease
\* bound returns Err and changes neither the index nor the storage; no call
\* adds more than one record to the pending pool, only bind_lease and
\* update_transaction_lease add one, and update_transaction_lease on a
\* transaction that has a lease does not make the pending pool grow
C3_OneLeasePerTransaction ==
  /\ \A x \in Xids, ip \in LeaseIps :
       LeaseAddressOf(index, storage, x) # NO_LEASE =>
         BindLease(index, storage, x, ip) = {Out(index, storage, FALSE)}
  /\ \A c \in Calls : \A o \in Outcomes(c) :
       LET before == Cardinality(PoolAddrs(storage, PENDING_LEASE_POOL_NAME))
           after == Cardinality(PoolAddrs(o.storage, PENDING_LEASE_POOL_NAME)) IN
       /\ after <= before + 1
       /\ c.op \notin {"bind_lease", "update_transaction_lease"} => after <= before
       /\ (c.op = "update_transaction_lease"
            /\ LeaseAddressOf(index, storage, c.xid) \in PoolAddrs(storage, PENDING_LEASE_POOL_NAME))
          => after <= before

\* a reachable state in which a transaction has a lease bound in the pending
\* pool, so that bind_lease on it is the rejected re-bind
C3_Witness ==
  \E x \in Xids, ip \in LeaseIps :
    /\ LeaseAddressOf(index, storage, x) \in PoolAddrs(storage, PENDING_LEASE_POOL_NAME)
    /\ \E o \in BindLease(index, storage, x, ip) : ~o.ok

\* ------------------------------------------------------------------- C4
\* C4: in every reachable state in which the transaction of x is WAITING,
\* handle_input(REQUEST x) with a specified server identifier other than
\* ADDRESS removes x from the index, leaves the transaction's pending lease
\* out of the pending pool and leaves the confirmed pool as it was
C4_OtherServerAborts ==
  \A x \in Xids :
    StateOf(index, storage, x) = "WAITING" =>
      \A o \in HandleInput(index, storage, RequestFor(x, Some(OTHER_SERVER)), now) :
        LET L == LeaseAddressOf(index, storage, x) IN
        /\ ~IsIn(o.index, x)
        /\ L \notin PoolAddrs(o.storage, PENDING_LEASE_POOL_NAME)
        /\ PoolAddrs(o.storage, LEASE_POOL_NAME) = PoolAddrs(storage, LEASE_POOL_NAME)
        /\ \A a \in PoolAddrs(storage, LEASE_POOL_NAME) : o.storage[a] = storage[a]

\* a reachable state in which a WAITING transaction holds a pending lease
\* and the REQUEST naming another server removes it
C4_Witness ==
  \E x \in Xids :
    /\ StateOf(index, storage, x) = "WAITING"
    /\ LeaseAddressOf(index, storage, x) \in PoolAddrs(storage, PENDING_LEASE_POOL_NAME)
    /\ \E o \in HandleInput(index, storage, RequestFor(x, Some(OTHER_SERVER)), now) :
         o.ok /\ ~IsIn(o.index, x)

C6_Discover ==
  \A x \in Xids :
    IF IsIn(index, x)
    THEN HandleInput(index, storage, DiscoverFor(x), now) = {Out(index, storage, FALSE)}
    ELSE \A o \in HandleInput(index, storage, DiscoverFor(x), now) :
           IF o.ok
           THEN LET tr == GetTransaction(o.index, o.storage, x) IN
                /\ tr.ok
                /\ tr.t.state = "PENDING"
                /\ tr.t.xid = x
                /\ tr.t.start = now
                /\ tr.t.pending_lease_address = NO_LEASE
                /\ DOMAIN o.index = DOMAIN index \cup {x}
                /\ \A y \in DOMAIN index : o.index[y] = index[y]
                /\ \A a \in Addrs : a # o.index[x] => o.storage[a] = storage[a]
                /\ storage[o.index[x]] = Null
           ELSE o.index = index /\ o.storage = storage

\* a reachable state in which one xid has a transaction (the duplicate
\* DISCOVER is rejected) and another has none and its DISCOVER succeeds
C6_Witness ==
  \E x, y \in Xids :
    /\ StateOf(index, storage, x) \in States
    /\ \E o \in HandleInput(index, storage, DiscoverFor(x), now) : ~o.ok
    /\ ~IsIn(index, y)
    /\ \E o \in HandleInput(index, storage, DiscoverFor(y), now) : o.ok

\* ------------------------------------------------------------------- C7
\* C7 as claimed: in every reachable state, after handle_output(NAK x) the
\* transaction of x is out of the index and its pending lease, if any, out
\* of the pending pool
C7_NakAborts ==
  \A x \in Xids :
    StateOf(index, storage, x) \in States =>
      \A o \in HandleOutput(index, storage, NakFor(x)) :
        /\ ~IsIn(o.index, x)
        /\ LeaseAddressOf(index, storage, x) \notin PoolAddrs(o.storage, PENDING_LEASE_POOL_NAME)

\* ------------------------------------------------------------------- C8
\* C8: in every reachable state only commit (directly or through the ACK)
\* adds to the confirmed pool, one record per call; a commit that returns Ok
\* has removed the transaction from the index and its lease from the pending
\* pool and stored one confirmed lease with the same address; a commit in
\* which the store fails returns Err, and leaves the transaction out of the
\* index, its lease out of the pending pool and the confirmed pool as it was
C8_AtMostOncePromotion ==
  \A c \in Calls : \A o \in Outcomes(c) :
    LET before == PoolAddrs(storage, LEASE_POOL_NAME)
        after == PoolAddrs(o.storage, LEASE_POOL_NAME)
        L == LeaseAddressOf(index, storage, c.xid) IN
    /\ before \subseteq after
    /\ \A a \in before : o.storage[a] = storage[a]
    /\ Cardinality(after) <= Cardinality(before) + 1
    /\ after # before => (c.op = "commit" \/ c.event = "ACK") /\ o.ok
    /\ (c.op = "commit" \/ (c.event = "ACK" /\ StateOf(index, storage, c.xid) = "REQUESTED")) =>
         /\ o.ok =>
              /\ ~IsIn(o.index, c.xid)
              /\ L \notin PoolAddrs(o.storage, PENDING_LEASE_POOL_NAME)
              /\ \E a \in after \ before : o.storage[a].data.address = storage[L].data.address
         /\ o.fault =>
              /\ ~o.ok
              /\ ~IsIn(o.index, c.xid)
              /\ L \notin PoolAddrs(o.storage, PENDING_LEASE_POOL_NAME)
              /\ after = before
         /\ (~o.ok /\ ~o.fault) => (o.index = index /\ o.storage = storage)

\* a reachable state in which a REQUESTED transaction holds a pending lease
\* and commit has both outcomes: the promotion, and the failed store that
\* loses the lease
C8_Witness ==
  \E x \in Xids :
    /\ StateOf(index, storage, x) = "REQUESTED"
    /\ LeaseAddressOf(index, storage, x) \in PoolAddrs(storage, PENDING_LEASE_POOL_NAME)
    /\ \E o \in CommitTransaction(index, storage, x) : o.ok
    /\ \E o \in CommitTransaction(index, storage, x) : o.fault

\* ------------------------------------------------------------------- C9
\* C9 as claimed: in every reachable state, when a storage.store call fails
\* inside handle_input, handle_output(OFFER) or bind_lease for xid x, the
\* call returns Err and a transaction x had is still in the index, still
\* returned by get_transaction, and in the state it had
C9_FaultLeavesTransaction ==
  \A c \in Calls :
    (c.op \in {"handle_input", "bind_lease"} \/ c.event = "OFFER") =>
      \A o \in Outcomes(c) : o.fault =>
        /\ ~o.ok
        /\ StateOf(index, storage, c.xid) \in States =>
             /\ IsIn(o.index, c.xid)
             /\ GetTransaction(o.index, o.storage, c.xid).ok
             /\ StateOf(o.index, o.storage, c.xid) = StateOf(index, storage, c.xid)

\* ------------------------------------------------------------------ C36
\* C36 as claimed: in every reachable state, a transaction of the index in
\* state BOUND, WAITING or REQUESTED has a pending_lease_address that is the
\* address of a record of the pending-lease pool
C36_LeaseAttached ==
  \A x \in Xids :
    StateOf(index, storage, x) \in {"BOUND", "WAITING", "REQUESTED"} =>
      /\ LeaseAddressOf(index, storage, x) # NO_LEASE
      /\ LeaseAddressOf(index, storage, x) \in PoolAddrs(storage, PENDING_LEASE_POOL_NAME)
      /\ GetTransactionLease(index, storage, x).ok

\* ------------------------------------------------------------------ C37
\* C37 as claimed: in every reachable state each record of the pending-lease
\* pool is referenced by exactly one transaction of the index, and abort of a
\* transaction that has no lease bound leaves the pending pool as it was
C37_PendingReferenced ==
  /\ \A a \in PoolAddrs(storage, PENDING_LEASE_POOL_NAME) :
       Cardinality({x \in DOMAIN index : LeaseAddressOf(index, storage, x) = a}) = 1
  /\ \A c \in Calls :
       (c.op = "abort" /\ LeaseAddressOf(index, storage, c.xid) = NO_LEASE) =>
         \A o \in Outcomes(c) :
           \A a \in PoolAddrs(storage, PENDING_LEASE_POOL_NAME) :
             o.storage[a] = storage[a]

\* ------------------------------------------------------------------ C38
\* The watchout task of main loops for ever (sleep, lock the manager,
\* watchout) and the clock advances: a clock step that can be taken is taken,
\* and a watchout that would change the index or the storage is run.
SpecLive == Init /\ [][Next]_vars /\ WF_vars(Tick) /\ WF_vars(DoWatchout)

\* C38 as claimed: under that fairness a transaction that is in the index at
\* time 0 (created by a DISCOVER) is eventually not in the index, or has been
\* deleted and created again at a later time by update_transaction_lease; the
\* clock of the model stops at MaxTime, so the transactions followed are those
\* started at 0, whose timeout elapses within MaxTime
C38_EventuallyRemoved ==
  \A x \in Xids :
    (now = 0 /\ IsIn(index, x)) ~>
      (\/ ~IsIn(index, x)
       \/ /\ GetTransaction(index, storage, x).ok
          /\ GetTransaction(index, storage, x).t.xid = x
          /\ GetTransaction(index, storage, x).t.start > 0)

\* ------------------------------------------------------------------ tasks
\* The manager is shared as Arc<Mutex<TransactionManager>>: a task locks
\* it, makes one call and unlocks.  Inside a call the methods take and drop
\* the locks of the index and of the storage several times; a step of a
\* call is one stretch of code between two such points.  A call in progress
\* is a frame: the steps still to run (stack) and the locals read so far.
Ins(i, xid) == [i |-> i, xid |-> xid, state |-> "", ip |-> <<>>, sid |-> None]

\* get_transaction: get_transaction_address, then storage.get
GetTransactionSteps(xid) == <<Ins("get_transaction_address", xid), Ins("storage_get", xid)>>

\* update_transaction_state: the address, the transaction, then the write
\* under the storage lock
UpdateTransactionStateSteps(xid, state) ==
  <<Ins("uts_address", xid)>> \o GetTransactionSteps(xid)
    \o <<[Ins("uts_write", xid) EXCEPT !.state = state]>>

\* delete_transaction: the transaction, then the removal under both locks
DeleteTransactionSteps(xid) == GetTransactionSteps(xid) \o <<Ins("delete_write", xid)>>

\* commit: get_transaction_lease, delete_transaction, storage.store
CommitSteps(xid) ==
  GetTransactionSteps(xid) \o <<Ins("storage_get_lease", xid)>>
    \o DeleteTransactionSteps(xid) \o <<Ins("store_lease", xid)>>

\* the steps a call starts with
Program(c) ==
  CASE c.op = "handle_input" /\ c.event = "DISCOVER" ->
         <<Ins("is_in", c.xid), Ins("initiate_transaction", c.xid)>>
    [] c.op = "handle_input" /\ c.packet.message_type = Some(DHCPREQUEST) ->
         GetTransactionSteps(c.xid)
           \o <<[Ins("match_request", c.xid) EXCEPT !.sid = c.packet.server_identifier]>>
    [] c.op = "handle_output" /\ c.event = "OFFER" ->
         GetTransactionSteps(c.xid) \o <<Ins("match_offer", c.xid)>>
    [] c.op = "handle_output" /\ c.event = "ACK" ->
         GetTransactionSteps(c.xid) \o <<Ins("match_ack", c.xid)>>
    [] c.op = "bind_lease" ->
         GetTransactionSteps(c.xid) \o <<[Ins("match_bind", c.xid) EXCEPT !.ip = c.lease]>>
    [] c.op = "watchout" -> <<Ins("keys", c.xid)>>
    [] OTHER -> <<>>

\* the call goes on with the given steps, or has returned Ok when none is left
Cont(idx, sto, f, stack) ==
  [index |-> idx, storage |-> sto,
   frame |-> IF stack = <<>>
             THEN [f EXCEPT !.stack = <<>>, !.status = "ok", !.rindex = idx, !.rstorage = sto]
             ELSE [f EXCEPT !.stack = stack]]

\* the call has returned Err ("err"), or Err of a failed storage.store ("fault")
Stop(idx, sto, f, status) ==
  [index |-> idx, storage |-> sto,
   frame |-> [f EXCEPT !.stack = <<>>, !.status = status, !.rindex = idx, !.rstorage = sto]]

\* one step of the call in frame f, at the given time: the index and
\* storage it leaves and the frame it goes on with
Exec(idx, sto, time, f) ==
  LET h == Head(f.stack)
      rest == Tail(f.stack)
      xid == h.xid IN
  CASE h.i = "is_in" ->
         {IF IsIn(idx, xid) THEN Stop(idx, sto, f, "err") ELSE Cont(idx, sto, f, rest)}
    [] h.i = "initiate_transaction" ->
         {IF o.ok THEN Cont(o.index, o.storage, f, rest)
          ELSE Stop(o.index, o.storage, f, IF o.fault THEN "fault" ELSE "err")
            : o \in InitiateTransaction(idx, sto, xid, time)}
    [] h.i = "get_transaction_address" ->
         LET a == GetTransactionAddress(idx, xid) IN
         {IF a.some THEN Cont(idx, sto, [f EXCEPT !.tmp = a.v], rest)
          ELSE Stop(idx, sto, f, "err")}
    [] h.i = "uts_address" ->
         LET a == GetTransactionAddress(idx, xid) IN
         {IF a.some THEN Cont(idx, sto, [f EXCEPT !.address = a.v], rest)
          ELSE Stop(idx, sto, f, "err")}
    [] h.i = "storage_get" ->
         LET g == StorageGet(sto, f.tmp) IN
         {IF g.ok /\ g.data.kind = "transaction"
          THEN Cont(idx, sto, [f EXCEPT !.t = g.data], rest)
          ELSE Stop(idx, sto, f, "err")}
    [] h.i = "storage_get_lease" ->
         LET g == StorageGet(sto, f.t.pending_lease_address) IN
         {IF g.ok /\ g.data.kind = "lease"
          THEN Cont(idx, sto, [f EXCEPT !.lease = g.data], rest)
          ELSE Stop(idx, sto, f, "err")}
    [] h.i = "match_offer" ->
         {IF f.t.state = "BOUND"
          THEN Cont(idx, sto, f, UpdateTransactionStateSteps(xid, "WAITING") \o rest)
          ELSE Stop(idx, sto, f, "err")}
    [] h.i = "match_ack" ->
         {IF f.t.state = "REQUESTED"
          THEN Cont(idx, sto, f, CommitSteps(xid) \o rest)
          ELSE Cont(idx, sto, f, rest)}
    [] h.i = "match_request" ->
         {IF ~h.sid.some THEN Stop(idx, sto, f, "err")
          ELSE IF h.sid.v = UNSPECIFIED THEN Cont(idx, sto, f, rest)
          ELSE IF h.sid.v = ADDRESS
               THEN IF f.t.state = "WAITING"
                    THEN Cont(idx, sto, f, UpdateTransactionStateSteps(xid, "REQUESTED") \o rest)
                    ELSE Stop(idx, sto, f, "err")
               ELSE Cont(idx, sto, f, DeleteTransactionSteps(xid) \o rest)}
    [] h.i = "match_bind" ->
         {IF f.t.pending_lease_address = NO_LEASE
          THEN Cont(idx, sto, f,
                    UpdateTransactionStateSteps(f.t.xid, "BOUND")
                      \o GetTransactionSteps(f.t.xid)
                      \o <<[Ins("bind_write", f.t.xid) EXCEPT !.ip = h.ip]>> \o rest)
          ELSE Stop(idx, sto, f, "err")}
    [] h.i = "uts_write" ->
         LET sto1 == StorageDelete(sto, f.address, TRANSACTION_POOL_NAME) IN
         {IF s.ok
          THEN Cont(IndexInsert(IndexRemove(idx, xid), xid, s.addr), s.storage, f, rest)
          ELSE Stop(idx, sto1, f, "fault")
            : s \in StorageStore(sto1, [f.t EXCEPT !.state = h.state], TRANSACTION_POOL_NAME)}
    [] h.i = "delete_write" ->
         {Cont(IndexRemove(idx, xid),
               StorageDelete(StorageDelete(sto, f.t.uid, TRANSACTION_POOL_NAME),
                             f.t.pending_lease_address, PENDING_LEASE_POOL_NAME),
               f, rest)}
    [] h.i = "store_lease" ->
         {IF s.ok THEN Cont(idx, s.storage, f, rest) ELSE Stop(idx, sto, f, "fault")
            : s \in StorageStore(sto, f.lease, LEASE_POOL_NAME)}
    [] h.i = "bind_write" ->
         UNION {
           IF ~sl.ok THEN {Stop(idx, sto, f, "fault")}
           ELSE
             LET t2 == [f.t EXCEPT !.pending_lease_address = sl.addr]
                 sto3 == StorageDelete(sl.storage, t2.uid, TRANSACTION_POOL_NAME) IN
             {IF st.ok
              THEN Cont(IndexInsert(IndexRemove(idx, xid), xid, st.addr), st.storage, f, rest)
              ELSE Stop(idx, sto3, f, "fault")
                : st \in StorageStore(sto3, t2, TRANSACTION_POOL_NAME)}
           : sl \in StorageStore(sto, NewLeaseData(h.ip), PENDING_LEASE_POOL_NAME)}
    [] h.i = "keys" ->
         {Cont(idx, sto, [f EXCEPT !.keys = DOMAIN idx], <<Ins("filter", xid)>> \o rest)}
    [] h.i = "filter" ->
         IF f.keys = {} THEN {Cont(idx, sto, f, <<Ins("abort_each", xid)>> \o rest)}
         ELSE {Cont(idx, sto, [f EXCEPT !.keys = f.keys \ {k}],
                    <<Ins("filter_address", k), Ins("filter_get", k)>> \o f.stack)
                 : k \in f.keys}
    [] h.i = "filter_address" ->
         LET a == GetTransactionAddress(idx, xid) IN
         {IF a.some THEN Cont(idx, sto, [f EXCEPT !.tmp = a.v], rest)
          ELSE Cont(idx, sto, f, Tail(rest))}
    [] h.i = "filter_get" ->
         LET g == StorageGet(sto, f.tmp) IN
         {IF g.ok /\ g.data.kind = "transaction" /\ Outdated(g.data, time)
          THEN Cont(idx, sto, [f EXCEPT !.outdated = f.outdated \cup {xid}], rest)
          ELSE Cont(idx, sto, f, rest)}
    [] h.i = "abort_each" ->
         IF f.outdated = {} THEN {Cont(idx, sto, f, rest)}
         ELSE {Cont(idx, sto, [f EXCEPT !.outdated = f.outdated \ {k}],
                    DeleteTransactionSteps(k) \o f.stack)
                 : k \in f.outdated}

\* the tasks work on the transaction of one client
TaskXids == {1}

\* the calls the handler task makes
HandlerCalls ==
  {c \in Calls : c.op \in {"handle_input", "handle_output", "bind_lease"} /\ c.xid \in TaskXids}

\* the call the watchout task makes
WatchoutCalls == {c \in Calls : c.op = "watchout"}

\* a lock that is always granted: C10 depends on the mutex around the manager
CanLock_Always(m, task) == TRUE

\* manager.lock().unwrap() returns: nobody holds the mutex
CanLock(m, task) == m = "free"

\* the frame of a call that starts: the call, the index, storage and time it
\* starts from, no local read yet, no result yet
NewFrame(c, idx, sto, time) ==
  [status |-> "run", stack |-> <<>>, address |-> 0, tmp |-> 0, t |-> Null,
   lease |-> Null, keys |-> {}, outdated |-> {}, rindex |-> <<>>, rstorage |-> <<>>,
   call |-> c, sindex |-> idx, sstorage |-> sto, snow |-> time]

\* a task locks the manager and starts a call
Lock(task, c) ==
  /\ task \notin DOMAIN frames
  /\ CanLock(mutex, task)
  /\ mutex' = task
  /\ frames' = [k \in DOMAIN frames \cup {task} |->
                  IF k = task
                  THEN Cont(index, storage, NewFrame(c, index, storage, now), Program(c)).frame
                  ELSE frames[k]]
  /\ UNCHANGED <<index, storage, now, guards, threads, alloc>>

\* the handler task: manager.lock().unwrap().handle_input(..), and so on
LockHandler == \E c \in HandlerCalls : Lock("handler", c)

\* the watchout task: transaction_syncer.lock().unwrap(); syncer.watchout()
LockWatchout == \E c \in WatchoutCalls : Lock("watchout", c)

\* a call in progress makes one step
Step ==
  \E task \in DOMAIN frames :
    /\ frames[task].status = "run"
    /\ \E r \in Exec(index, storage, now, frames[task]) :
         /\ index' = r.index
         /\ storage' = r.storage
         /\ frames' = [frames EXCEPT ![task] = r.frame]
    /\ UNCHANGED <<now, mutex, guards, threads, alloc>>

\* the call has returned: the MutexGuard is dropped
Unlock ==
  \E task \in DOMAIN frames :
    /\ frames[task].status \in {"ok", "err", "fault"}
    /\ mutex' = "free"
    /\ frames' = [k \in DOMAIN frames \ {task} |-> frames[k]]
    /\ UNCHANGED <<index, storage, now, guards, threads, alloc>>

NextTasks ==
  \/ LockHandler
  \/ LockWatchout
  \/ Step
  \/ Unlock
  \/ Tick

SpecTasks == Init /\ [][NextTasks]_vars

\* ------------------------------------------------------------------ C10
\* C10: in every reachable state of the tasks, at most one task is inside a
\* call, and a call that has returned has left the index and the storage,
\* and returned the result, that the call made in one piece on the index
\* and storage it started from can leave and return
C10_Linearized ==
  /\ Cardinality(DOMAIN frames) <= 1
  /\ \A task \in DOMAIN frames :
       LET f == frames[task] IN
       f.status \in {"ok", "err", "fault"} =>
         \E o \in OutcomesAt(f.call, f.sindex, f.sstorage, f.snow) :
           /\ o.index = f.rindex
           /\ o.storage = f.rstorage
           /\ o.ok = (f.status = "ok")
           /\ o.fault = (f.status = "fault")

\* a reachable state in which the handler task is inside bind_lease, has
\* moved the transaction to BOUND and not yet stored the lease, while the
\* transaction is older than 30 s: the watchout task would abort it, and is
\* kept out
C10_Witness ==
  /\ DOMAIN frames = {"handler"}
  /\ mutex = "handler"
  /\ LET f == frames["handler"]
         x == f.call.xid IN
     /\ f.status = "run"
     /\ f.call.op = "bind_lease"
     /\ Head(f.stack).i = "bind_write"
     /\ StateOf(index, storage, x) = "BOUND"
     /\ StateOf(f.sindex, f.sstorage, x) = "PENDING"
     /\ x \in OutdatedTransactions(index, storage, now)

\* ====================================================================
\* Ipv4Subnet (src/src/leases/ip_subnet.rs)
\* ====================================================================
\* Addresses and alloc_ptr are u32 in the source.  They are AddrBits wide
\* here, all arithmetic being done modulo 2^AddrBits, so that a /n subnet of
\* the source is the prefix n - (32 - AddrBits) here: AddrBits is the /32,
\* AddrBits - 2 the /30.
AddrBits == 4

\* Vec::push on released is modelled up to MaxReleased entries
MaxReleased == 2

\* the allocate calls made in a row on a fresh subnet
MaxCalls == 6

\* 2^32 in the source
Modulus == 2 ^ AddrBits

\* every Ipv4Addr
Ips == 0 .. (Modulus - 1)

\* the result of an expression: a value, or the panic of an arithmetic
\* overflow when the build checks for it
Val(v) == [panic |-> FALSE, v |-> v]

Panic == [panic |-> TRUE]

RECURSIVE BitOr(_, _)
\* a | b on unsigned integers
BitOr(a, b) ==
  IF a = 0 THEN b
  ELSE IF b = 0 THEN a
  ELSE (IF (a % 2 = 1) \/ (b % 2 = 1) THEN 1 ELSE 0) + 2 * BitOr(a \div 2, b \div 2)

\* Ipv4Subnet::new, with the default options a subnet is given
Ipv4SubnetNew(network_addr, prefix, options) ==
  [kind |-> "subnet", network_addr |-> network_addr, prefix |-> prefix,
   alloc_ptr |-> 1, released |-> <<>>, force_allocated |-> {},
   options |-> options, uid |-> 0]

\* the expression 2 << (wc - 1) of count and broadcast, wc = 32 - prefix
\* being a u8: for wc = 0 the subtraction overflows, which panics when
\* overflow is checked and otherwise wraps to 255, a shift amount that is
\* masked to the bits of a u32 (255 & 31 = 31); the bits shifted out of the
\* u32 are lost
ShiftWildcard(prefix, checks) ==
  LET wc == AddrBits - prefix IN
  IF wc = 0
  THEN IF checks THEN Panic ELSE Val((2 * 2 ^ (AddrBits - 1)) % Modulus)
  ELSE Val((2 * 2 ^ (wc - 1)) % Modulus)

\* count
Count(s, checks) == ShiftWildcard(s.prefix, checks)

\* broadcast: network | ((2 << (wc - 1)) - 1); the subtraction overflows
\* when the shift gave 0
Broadcast(s, checks) ==
  LET sh == ShiftWildcard(s.prefix, checks) IN
  IF sh.panic THEN Panic
  ELSE IF sh.v = 0
       THEN IF checks THEN Panic ELSE Val(BitOr(s.network_addr, Modulus - 1))
       ELSE Val(BitOr(s.network_addr, sh.v - 1))

\* contains: network <= ip && broadcast() >= ip, the right side evaluated
\* only when the left side holds
Contains(s, ip, checks) ==
  IF s.network_addr <= ip
  THEN LET b == Broadcast(s, checks) IN
       IF b.panic THEN Panic ELSE Val(b.v >= ip)
  ELSE Val(FALSE)

\* is_free: the offset ip - network is computed first, in u32
IsFree(s, ip, checks) ==
  IF ip < s.network_addr /\ checks THEN Panic
  ELSE LET cnt_from_nw == (ip - s.network_addr) % Modulus
           c == Contains(s, ip, checks)
       IN IF c.panic THEN Panic
          ELSE Val(/\ c.v
                   /\ (cnt_from_nw >= s.alloc_ptr \/ \E i \in DOMAIN s.released : s.released[i] = ip)
                   /\ ip \notin s.force_allocated)

\* outcome of a method of Ipv4Subnet: Ok, Err or a panic, the subnet it
\* leaves and the address it returns
SubnetOut(status, s, ip) == [status |-> status, subnet |-> s, ip |-> ip]

\* free
Free(s, ip, checks) ==
  LET c == Contains(s, ip, checks) IN
  IF c.panic THEN SubnetOut("panic", s, ip)
  ELSE IF ~c.v THEN SubnetOut("err", s, ip)
  ELSE LET f == IsFree(s, ip, checks) IN
       IF f.panic THEN SubnetOut("panic", s, ip)
       ELSE IF f.v THEN SubnetOut("err", s, ip)
       ELSE SubnetOut("ok", [s EXCEPT !.released = Append(@, ip)], ip)

\* free_static_alloc that keeps the reservation: C22 depends on the removal
\* of the address from force_allocated
FreeStaticAlloc_Keep(s, ip) ==
  IF ip \in s.force_allocated THEN [status |-> "ok", subnet |-> s, ip |-> ip]
  ELSE [status |-> "err", subnet |-> s, ip |-> ip]

\* free_static_alloc
FreeStaticAlloc(s, ip) ==
  IF ip \notin s.force_allocated THEN SubnetOut("err", s, ip)
  ELSE SubnetOut("ok", [s EXCEPT !.force_allocated = @ \ {ip}], ip)

\* allocate that hands the released addresses out oldest first: C29 depends
\* on released.pop()
Allocate_Fifo(s, checks) ==
  LET n == Count(s, checks) IN
  IF n.panic THEN SubnetOut("panic", s, 0)
  ELSE IF s.alloc_ptr > n.v /\ s.released = <<>> THEN SubnetOut("err", s, 0)
  ELSE IF s.released # <<>>
       THEN SubnetOut("ok", [s EXCEPT !.released = Tail(@)], Head(s.released))
       ELSE SubnetOut("ok", [s EXCEPT !.alloc_ptr = (@ + 1) % Modulus],
                      (s.network_addr + s.alloc_ptr) % Modulus)

\* allocate: count() is evaluated whatever released holds
Allocate(s, checks) ==
  LET n == Count(s, checks) IN
  IF n.panic THEN SubnetOut("panic", s, 0)
  ELSE IF s.alloc_ptr > n.v /\ s.released = <<>> THEN SubnetOut("err", s, 0)
  ELSE IF s.released # <<>>
       THEN SubnetOut("ok", [s EXCEPT !.released = SubSeq(@, 1, Len(@) - 1)],
                      s.released[Len(s.released)])
       ELSE IF (s.network_addr + s.alloc_ptr >= Modulus \/ s.alloc_ptr + 1 >= Modulus) /\ checks
            THEN SubnetOut("panic", s, 0)
            ELSE SubnetOut("ok", [s EXCEPT !.alloc_ptr = (@ + 1) % Modulus],
                           (s.network_addr + s.alloc_ptr) % Modulus)

\* force_allocate that never refuses: C14 depends on the is_free test
ForceAllocate_Unchecked(s, ip, checks) ==
  SubnetOut("ok", [s EXCEPT !.force_allocated = @ \cup {ip}], ip)

\* force_allocate
ForceAllocate(s, ip, checks) ==
  LET f == IsFree(s, ip, checks) IN
  IF f.panic THEN SubnetOut("panic", s, ip)
  ELSE IF ~f.v THEN SubnetOut("err", s, ip)
  ELSE SubnetOut("ok", [s EXCEPT !.force_allocated = @ \cup {ip}], ip)

\* allocated_count: alloc_ptr - 1 - released.len() as u32, evaluated from the
\* left in u32; a subtraction that goes below zero panics when overflow is
\* checked and wraps otherwise
AllocatedCount(s, checks) ==
  LET len == Len(s.released) % Modulus IN
  IF (s.alloc_ptr < 1 \/ s.alloc_ptr - 1 < len) /\ checks THEN Panic
  ELSE Val((s.alloc_ptr - 1 - len) % Modulus)

\* ------------------------------------------------------------------ locks
\* The same calls, followed only through the Mutexes they lock and the guards
\* they drop.  A step is lock().unwrap() on a Mutex or the drop of its guard
\* (at the end of the scope that declared it, last declared first).
Acquire(m) == <<[do |-> "lock", mutex |-> m]>>

Drop(m) == <<[do |-> "drop", mutex |-> m]>>

\* is_in, get_transaction_address: the index, for one read
IsInLocks == Acquire("index") \o Drop("index")

\* get_transaction: get_transaction_address, then the storage
GetTransactionLocks == IsInLocks \o Acquire("storage") \o Drop("storage")

\* initiate_transaction: the index, and the storage while the index is held
InitiateTransactionLocks ==
  Acquire("index") \o Acquire("storage") \o Drop("storage") \o Drop("index")

\* delete_transaction: get_transaction, then the storage, and the index while
\* the storage is held
DeleteTransactionLocks ==
  GetTransactionLocks
    \o Acquire("storage") \o Acquire("index") \o Drop("index") \o Drop("storage")

\* update_transaction_state: get_transaction_address, get_transaction, then
\* the storage, and the index while the storage is held
UpdateTransactionStateLocks ==
  IsInLocks \o GetTransactionLocks
    \o Acquire("storage") \o Acquire("index") \o Drop("index") \o Drop("storage")

\* bind_lease: get_transaction, update_transaction_state, get_transaction,
\* then the storage, and the index while the storage is held
BindLeaseLocks ==
  GetTransactionLocks \o UpdateTransactionStateLocks \o GetTransactionLocks
    \o Acquire("storage") \o Acquire("index") \o Drop("index") \o Drop("storage")

\* commit: get_transaction_lease (get_transaction, the storage),
\* delete_transaction, then the storage
CommitLocks ==
  GetTransactionLocks \o Acquire("storage") \o Drop("storage")
    \o DeleteTransactionLocks \o Acquire("storage") \o Drop("storage")

\* watchout: the keys of the index, get_transaction of a key, abort of it
WatchoutLocks == IsInLocks \o GetTransactionLocks \o DeleteTransactionLocks

\* abort of dhcp_transactions.rs: the index, then is_in, which locks the
\* index again while the guard of abort is alive
LegacyAbortLocks ==
  Acquire("legacy_index") \o Acquire("legacy_index") \o Drop("legacy_index")
    \o Acquire("legacy_storage") \o Drop("legacy_storage") \o Drop("legacy_index")

\* the lock steps of a call; a task reaches the manager through
\* manager.lock().unwrap() and holds that guard until the call has returned
LockSteps(c) ==
  CASE c = "sync" -> Acquire("storage") \o Drop("storage")
    [] c = "legacy_abort" ->
         Acquire("legacy_manager") \o LegacyAbortLocks \o Drop("legacy_manager")
    [] c = "legacy_watch" ->
         Acquire("legacy_manager") \o Acquire("legacy_index")
           \o Drop("legacy_index") \o Drop("legacy_manager")
    [] OTHER ->
         Acquire("manager")
           \o (CASE c = "handle_discover" -> IsInLocks \o InitiateTransactionLocks
                 [] c = "handle_request" -> GetTransactionLocks \o UpdateTransactionStateLocks
                 [] c = "handle_request_other" -> GetTransactionLocks \o DeleteTransactionLocks
                 [] c = "handle_offer" -> GetTransactionLocks \o UpdateTransactionStateLocks
                 [] c = "handle_ack" -> GetTransactionLocks \o CommitLocks
                 [] c = "bind_lease" -> BindLeaseLocks
                 [] c = "update_transaction_lease" ->
                      DeleteTransactionLocks \o InitiateTransactionLocks \o BindLeaseLocks
                 [] c = "abort" -> DeleteTransactionLocks
                 [] c = "commit" -> CommitLocks
                 [] c = "watchout" -> WatchoutLocks)
           \o Drop("manager")

\* the calls each task makes
ThreadCalls(task) ==
  CASE task = "handler" ->
         {"handle_discover", "handle_request", "handle_request_other", "handle_offer",
          "handle_ack", "bind_lease", "update_transaction_lease", "abort", "commit",
          "legacy_abort"}
    [] task = "watchout" -> {"watchout", "legacy_watch"}
    [] task = "sync" -> {"sync"}

\* a task begins a call
CallStarts(task, c) ==
  /\ threads[task].status = "idle"
  /\ threads' = [threads EXCEPT ![task] =
                   [status |-> "run", call |-> c, steps |-> LockSteps(c)]]
  /\ UNCHANGED <<index, storage, now, mutex, frames, guards, alloc>>

\* the Mutex the task is about to lock
Locking(task, m) ==
  /\ threads[task].status = "run"
  /\ Head(threads[task].steps) = [do |-> "lock", mutex |-> m]

\* a panic unwinds the task: every guard it holds is dropped and its Mutex
\* is poisoned
Unwound(task) ==
  [m \in Mutexes |->
     IF guards[m].holder = task THEN [holder |-> "free", poisoned |-> TRUE]
     ELSE guards[m]]

\* the task ends in a panic
Panics(task) ==
  /\ guards' = Unwound(task)
  /\ threads' = [threads EXCEPT ![task] = [status |-> "panicked", call |-> @.call, steps |-> <<>>]]

\* lock() returns the guard: nobody holds the Mutex and it is not poisoned
LockReturns(task) ==
  \E m \in Mutexes :
    /\ Locking(task, m)
    /\ guards[m] = [holder |-> "free", poisoned |-> FALSE]
    /\ guards' = [guards EXCEPT ![m].holder = task]
    /\ threads' = [threads EXCEPT ![task].steps = Tail(@)]
    /\ UNCHANGED <<index, storage, now, mutex, frames, alloc>>

\* lock() returns Err on a poisoned Mutex and unwrap panics
LockPoisoned(task) ==
  \E m \in Mutexes :
    /\ Locking(task, m)
    /\ guards[m] = [holder |-> "free", poisoned |-> TRUE]
    /\ Panics(task)
    /\ UNCHANGED <<index, storage, now, mutex, frames, alloc>>

\* lock() on a Mutex the task holds itself never returns: the standard
\* library leaves open whether the thread blocks for ever or panics
LockRelocked(task) ==
  \E m \in Mutexes :
    /\ Locking(task, m)
    /\ guards[m].holder = task
    /\ \/ /\ threads' = [threads EXCEPT ![task].status = "deadlock"]
          /\ UNCHANGED guards
       \/ Panics(task)
    /\ UNCHANGED <<index, storage, now, mutex, frames, alloc>>

\* a guard goes out of scope; after the last one the call has returned
GuardDropped(task) ==
  /\ threads[task].status = "run"
  /\ Head(threads[task].steps).do = "drop"
  /\ guards' = [guards EXCEPT ![Head(threads[task].steps).mutex].holder = "free"]
  /\ threads' = [threads EXCEPT ![task] =
                   IF Len(@.steps) = 1
                   THEN [status |-> "idle", call |-> "none", steps |-> <<>>]
                   ELSE [@ EXCEPT !.steps = Tail(@)]]
  /\ UNCHANGED <<index, storage, now, mutex, frames, alloc>>

NextLocks ==
  \/ \E task \in Threads : \E c \in ThreadCalls(task) : CallStarts(task, c)
  \/ \E task \in Threads : LockReturns(task)
  \/ \E task \in Threads : LockPoisoned(task)
  \/ \E task \in Threads : LockRelocked(task)
  \/ \E task \in Threads : GuardDropped(task)

SpecLocks == Init /\ [][NextLocks]_vars

\* ------------------------------------------------------------------ C39
\* the tasks waiting for a Mutex held by a task of the set
WaitingOn(set) ==
  {task \in Threads : \E m \in Mutexes : Locking(task, m) /\ guards[m].holder \in set}

\* C39 as claimed: in every reachable state no task has ended in a lock on a
\* Mutex it holds, no task is about to lock a Mutex it holds, and there is no
\* set of tasks each of which waits for a Mutex held by a task of the set
C39_NoDeadlock ==
  /\ \A task \in Threads : threads[task].status \notin {"deadlock", "panicked"}
  /\ \A task \in Threads : \A m \in Mutexes : Locking(task, m) => guards[m].holder # task
  /\ \A set \in SUBSET Threads : set # {} => ~(set \subseteq WaitingOn(set))

\* ------------------------------------------------ a subnet held on its own
\* DhcpOptions::new(): no option is set
NoOptions == [lease_time |-> None]

\* the subnets built: a /30 inside the address space, the /30 that ends the
\* address space, and a /32, as <<network address, prefix>>
SubnetParams ==
  {<<4, AddrBits - 2>>, <<Modulus - 4, AddrBits - 2>>, <<8, AddrBits>>}

\* the other side of the state while the subnet or the allocators run
TransactionsIdle ==
  /\ index = <<>>
  /\ storage = [a \in Addrs |-> Null]
  /\ now = 0
  /\ mutex = "free"
  /\ frames = <<>>
  /\ guards = [m \in Mutexes |-> [holder |-> "free", poisoned |-> FALSE]]
  /\ threads = [task \in Threads |-> [status |-> "idle", call |-> "none", steps |-> <<>>]]

AllocatorsIdle ==
  /\ shared_storage = [a \in Addrs |-> Null]
  /\ dynamic_allocator = [subnets |-> <<>>]
  /\ static_allocator = [subnets |-> <<>>, registry |-> <<>>]
  /\ granted = {}
  /\ static_draft = None
  /\ output = Null

\* Ipv4Subnet::new in a build with or without overflow checks
InitSubnet ==
  /\ TransactionsIdle
  /\ AllocatorsIdle
  /\ codec = Null
  /\ binary_search = "early_return"
  /\ overflow_checks \in BOOLEAN
  /\ \E np \in SubnetParams : subnet = Ipv4SubnetNew(np[1], np[2], NoOptions)

\* a call that returns leaves its subnet; a call that panics ends the run
SubnetEffect(o) ==
  /\ o.status # "panic"
  /\ subnet' = o.subnet
  /\ UNCHANGED <<tm, overflow_checks, binary_search, shared_storage, dynamic_allocator, static_allocator, granted, static_draft, codec, output>>

\* the addresses the calls are made with: those of the subnet as configured,
\* the one below and the one above
CallIps(s) ==
  {ip \in Ips : s.network_addr - 1 <= ip /\ ip <= s.network_addr + 2 ^ (AddrBits - s.prefix)}

DoAllocate == SubnetEffect(Allocate(subnet, overflow_checks))

DoFree ==
  /\ Len(subnet.released) < MaxReleased
  /\ \E ip \in CallIps(subnet) : SubnetEffect(Free(subnet, ip, overflow_checks))

DoForceAllocate ==
  \E ip \in CallIps(subnet) : SubnetEffect(ForceAllocate(subnet, ip, overflow_checks))

DoFreeStaticAlloc == \E ip \in CallIps(subnet) : SubnetEffect(FreeStaticAlloc(subnet, ip))

NextSubnet ==
  \/ DoAllocate
  \/ DoFree
  \/ DoForceAllocate
  \/ DoFreeStaticAlloc

SpecSubnet == InitSubnet /\ [][NextSubnet]_vars

\* ----------------------------------------------------- subnet observations
\* the subnet as Ipv4Subnet::new built it
Fresh == Ipv4SubnetNew(subnet.network_addr, subnet.prefix, subnet.options)

\* 2^(32 - n) of a /n subnet
SizeOf(s) == 2 ^ (AddrBits - s.prefix)

RECURSIVE AllocateRun(_, _, _)
\* the outcomes of k allocate calls made in a row
AllocateRun(s, k, checks) ==
  IF k = 0 THEN <<>>
  ELSE LET a == Allocate(s, checks) IN <<a>> \o AllocateRun(a.subnet, k - 1, checks)

Min(a, b) == IF a <= b THEN a ELSE b

\* ------------------------------------------------------------------ C11
\* C11 as claimed: in every reachable state of a subnet, when allocate()
\* returns Ok(ip), free(ip) called next returns Ok and is_free(ip) is then
\* true
C11_AllocateThenFree ==
  LET a == Allocate(subnet, overflow_checks) IN
  a.status = "ok" =>
    LET f == Free(a.subnet, a.ip, overflow_checks) IN
    /\ f.status = "ok"
    /\ IsFree(f.subnet, a.ip, overflow_checks) = Val(TRUE)

\* ------------------------------------------------------------------ C12
\* C12 as claimed: k allocate() calls in a row on a fresh /n subnet return
\* min(k, 2^(32-n) - 1) distinct addresses, and every call after those
\* 2^(32-n) - 1 fails
C12_DistinctAllocations ==
  \A k \in 0 .. MaxCalls :
    LET run == AllocateRun(Fresh, k, overflow_checks)
        got == {run[i].ip : i \in {j \in 1 .. k : run[j].status = "ok"}}
        hosts == SizeOf(subnet) - 1
    IN /\ Cardinality(got) = Min(k, hosts)
       /\ \A i \in 1 .. k : i > hosts => run[i].status = "err"

\* ------------------------------------------------------------------ C13
\* C13 as claimed: in every reachable state of a subnet an address that
\* allocate() returns lies strictly between the network address and the
\* broadcast address, and a fresh /30 gives offset 1, then offset 2, then
\* fails
C13_NeverNetworkOrBroadcast ==
  /\ LET a == Allocate(subnet, overflow_checks) IN
     a.status = "ok" =>
       /\ subnet.network_addr < a.ip
       /\ a.ip < subnet.network_addr + SizeOf(subnet) - 1
  /\ subnet.prefix = AddrBits - 2 =>
       LET run == AllocateRun(Fresh, 3, overflow_checks) IN
       /\ run[1].status = "ok" /\ run[1].ip = subnet.network_addr + 1
       /\ run[2].status = "ok" /\ run[2].ip = subnet.network_addr + 2
       /\ run[3].status = "err"

C15_Slash32 ==
  subnet.prefix = AddrBits =>
    /\ Count(subnet, overflow_checks) = Val(1)
    /\ Broadcast(subnet, overflow_checks) = Val(subnet.network_addr)
    /\ Allocate(subnet, overflow_checks).status = "err"

\* ------------------------------------------------------------------ C31
\* C31 as claimed: in every reachable state of a subnet allocated_count()
\* does not underflow and returns (alloc_ptr - 1) - |released| + |reserved|,
\* and after one allocate() on a fresh subnet it returns 1
C31_AllocatedCount ==
  /\ LET c == AllocatedCount(subnet, overflow_checks) IN
     /\ ~c.panic
     /\ subnet.alloc_ptr - 1 >= Len(subnet.released)
     /\ c.v = (subnet.alloc_ptr - 1) - Len(subnet.released)
                + Cardinality(subnet.force_allocated)
  /\ LET a == Allocate(Fresh, overflow_checks) IN
     a.status = "ok" => AllocatedCount(a.subnet, overflow_checks) = Val(1)

\* ------------------------------------------------------------------ C34
\* C34 as claimed: in every reachable state of a subnet, an address that
\* allocate() returns is one for which is_free was true before the call, and
\* in particular is not in the force-allocated set
C34_AllocatesFree ==
  LET a == Allocate(subnet, overflow_checks) IN
  a.status = "ok" =>
    /\ IsFree(subnet, a.ip, overflow_checks) = Val(TRUE)
    /\ a.ip \notin subnet.force_allocated

\* ====================================================================
\* SubnetV4Map (src/src/allocators/subnet_map.rs)
\* ====================================================================
SUBNET_POOL_NAME == "Subnetv4"

\* CidrSubnet::new(u32::from(subnet.network()), subnet.prefix())
CidrSubnet(network_addr, prefix) == [network_addr |-> network_addr, prefix |-> prefix]

\* the keys of the BTreeMap equal to a key: Ord for CidrSubnet compares the
\* network addresses only
KeysEqual(subnets, cidr) == {k \in DOMAIN subnets : k.network_addr = cidr.network_addr}

\* BTreeMap::insert: the value of an equal key is replaced, the key stays
MapInsert(subnets, cidr, a) ==
  IF KeysEqual(subnets, cidr) # {}
  THEN [k \in DOMAIN subnets |-> IF k \in KeysEqual(subnets, cidr) THEN a ELSE subnets[k]]
  ELSE [k \in DOMAIN subnets \cup {cidr} |-> IF k = cidr THEN a ELSE subnets[k]]

\* outcome of a method of the map: the keys and the storage it leaves;
\* fault tells a panic that comes from storage.store returning Err
MapOut(status, subnets, sto, fault) ==
  [status |-> status, subnets |-> subnets, storage |-> sto, fault |-> fault]

\* insert_subnet
InsertSubnet(subnets, sto, s) ==
  {IF st.ok
   THEN MapOut("ok", MapInsert(subnets, CidrSubnet(s.network_addr, s.prefix), st.addr),
               st.storage, FALSE)
   ELSE MapOut("err", subnets, sto, FALSE)
     : st \in StorageStore(sto, s, SUBNET_POOL_NAME)}

\* update_subnet that stores nothing: C17 depends on the subnet being
\* written back
UpdateSubnet_Skip(subnets, sto, s) == {MapOut("ok", subnets, sto, FALSE)}

\* update_subnet: both unwrap calls panic on None and on Err
UpdateSubnet(subnets, sto, s) ==
  LET ks == KeysEqual(subnets, CidrSubnet(s.network_addr, s.prefix)) IN
  IF ks = {} THEN {MapOut("panic", subnets, sto, FALSE)}
  ELSE LET k == CHOOSE c \in ks : TRUE
           deleted == StorageDelete(sto, subnets[k], SUBNET_POOL_NAME)
       IN {IF st.ok
           THEN MapOut("ok", [subnets EXCEPT ![k] = st.addr], st.storage, FALSE)
           ELSE MapOut("panic", subnets, deleted, TRUE)
             : st \in StorageStore(deleted, s, SUBNET_POOL_NAME)}

\* the subnet a key of the map leads to: storage.get and extract!
Fetch(subnets, sto, k) ==
  LET g == StorageGet(sto, subnets[k]) IN
  IF g.ok /\ g.data.kind = "subnet" THEN [status |-> "some", s |-> g.data]
  ELSE [status |-> "none", s |-> Null]

\* get_subnet
GetSubnet(subnets, sto, cidr) ==
  IF KeysEqual(subnets, cidr) = {} THEN [status |-> "none", s |-> Null]
  ELSE Fetch(subnets, sto, CHOOSE k \in KeysEqual(subnets, cidr) : TRUE)

\* the keys of the BTreeMap in its order, by ascending network address (no
\* two keys of the map have the same network address)
SortedKeys(keys) ==
  [i \in 1..Cardinality(keys) |->
     CHOOSE k \in keys :
       Cardinality({j \in keys : j.network_addr < k.network_addr}) = i - 1]

\* the comparator get_matching_subnet gives to binary_search_by
Compare(elem, ip, checks) ==
  LET c == Contains(elem, ip, checks) IN
  IF c.panic THEN Panic
  ELSE IF c.v THEN Val("Equal")
  ELSE LET b == Broadcast(elem, checks) IN
       IF b.panic THEN Panic
       ELSE IF ip > b.v THEN Val("Less") ELSE Val("Greater")

\* the two binary searches of the standard library, which differ in the
\* match they return when several elements compare Equal
BinarySearches == {"early_return", "branchless"}

\* the body of the loop of the binary search that returns at the first
\* Equal, after the comparison of the element at mid
EarlyReturnStep(cmp, loop, left, mid, right) ==
  IF cmp.panic THEN [status |-> "panic", i |-> 0]
  ELSE IF cmp.v = "Less" THEN loop[<<mid + 1, right>>]
  ELSE IF cmp.v = "Greater" THEN loop[<<left, mid>>]
  ELSE [status |-> "ok", i |-> mid]

\* slice::binary_search_by that returns at the first Equal (Rust 1.52 to
\* 1.81); loop[<<left, right>>] is the loop on the elements left .. right - 1
SearchEarlyReturn(keys, ip, checks) ==
  LET loop[range \in (0..Len(keys)) \X (0..Len(keys))] ==
        LET left == range[1]
            right == range[2]
            mid == left + ((right - left) \div 2)
        IN IF left >= right THEN [status |-> "err", i |-> left]
           ELSE EarlyReturnStep(Compare(keys[mid + 1], ip, checks), loop, left, mid, right)
  IN loop[<<0, Len(keys)>>]

\* the body of the loop of the branchless binary search, after the
\* comparison of the element at mid: base moves to mid unless it is Greater
BranchlessStep(cmp, loop, base, mid, size) ==
  IF cmp.panic THEN [status |-> "panic", i |-> 0]
  ELSE loop[<<IF cmp.v = "Greater" THEN base ELSE mid, size>>]

\* the end of the branchless binary search: the comparison of the one
\* element left, at base
BranchlessLast(cmp, base) ==
  IF cmp.panic THEN [status |-> "panic", i |-> 0]
  ELSE IF cmp.v = "Equal" THEN [status |-> "ok", i |-> base]
  ELSE [status |-> "err", i |-> base + (IF cmp.v = "Less" THEN 1 ELSE 0)]

\* slice::binary_search_by that halves the range down to one element and
\* compares it last (Rust 1.82 and later); loop[<<base, size>>] is the loop
\* on the size elements from base
SearchBranchless(keys, ip, checks) ==
  LET loop[range \in (0..Len(keys)) \X (0..Len(keys))] ==
        LET base == range[1]
            size == range[2]
            half == size \div 2
        IN IF size = 0 THEN [status |-> "err", i |-> 0]
           ELSE IF size > 1
           THEN BranchlessStep(Compare(keys[base + half + 1], ip, checks), loop,
                               base, base + half, size - half)
           ELSE BranchlessLast(Compare(keys[base + 1], ip, checks), base)
  IN loop[<<0, Len(keys)>>]

BinarySearchBy(search, keys, ip, checks) ==
  IF search = "early_return" THEN SearchEarlyReturn(keys, ip, checks)
  ELSE SearchBranchless(keys, ip, checks)

\* the unwrap of the result of the search, which panics when the search
\* found no key, and the read of the subnet of the key found
Unwrap(subnets, sto, available_subnets, found) ==
  IF found.status # "ok" THEN [status |-> "panic", s |-> Null]
  ELSE Fetch(subnets, sto, available_subnets[found.i + 1])

\* get_matching_subnet with a given binary search, over the keys collected
\* from the map
GetMatchingSubnetBy(search, subnets, sto, ip, checks) ==
  Unwrap(subnets, sto, SortedKeys(DOMAIN subnets),
         BinarySearchBy(search, SortedKeys(DOMAIN subnets), ip, checks))

\* get_matching_subnet in the build at hand
GetMatchingSubnet(subnets, sto, ip, checks) ==
  GetMatchingSubnetBy(binary_search, subnets, sto, ip, checks)

\* ====================================================================
\* DynamicAllocator (src/src/allocators/dynamic_alloc/dynamic_allocator.rs)
\* ====================================================================
\* DhcpMessage, reduced to its variant and to the fields the allocator reads:
\* giaddr, option 50 and option 51
DhcpMessage(variant, giaddr, requested_ip, lease_time) ==
  [variant |-> variant, giaddr |-> giaddr, requested_ip |-> requested_ip,
   lease_time |-> lease_time]

\* outcome of Allocator::allocate: Some(AllocationDraft), None or a panic,
\* and the map and storage it leaves
DraftOut(status, fault, ip, options, subnets, sto) ==
  [status |-> status, fault |-> fault, ip |-> ip, options |-> options,
   subnets |-> subnets, storage |-> sto]

\* get_client_subnet
GetClientSubnet(subnets, sto, packet, checks) ==
  IF packet.giaddr = 0
  THEN IF packet.requested_ip.some
       THEN GetMatchingSubnet(subnets, sto, packet.requested_ip.v, checks)
       ELSE [status |-> "none", s |-> Null]
  ELSE GetMatchingSubnet(subnets, sto, packet.giaddr, checks)

\* the tail of both branches of allocate: update_subnet, then the draft
Drafted(subnets, sto, s, ip, options) ==
  {IF u.status = "ok"
   THEN DraftOut("some", FALSE, ip, options, u.subnets, u.storage)
   ELSE DraftOut("panic", u.fault, ip, options, u.subnets, u.storage)
     : u \in UpdateSubnet(subnets, sto, s)}

\* DynamicAllocator::allocate
DynamicAllocate(subnets, sto, msg, checks) ==
  IF msg.variant \notin {"DhcpDiscover", "DhcpRequest"}
  THEN {DraftOut("none", FALSE, 0, NoOptions, subnets, sto)}
  ELSE
  LET cs == GetClientSubnet(subnets, sto, msg, checks) IN
  IF cs.status # "some"
  THEN {DraftOut(cs.status, FALSE, 0, NoOptions, subnets, sto)}
  ELSE
  LET options == cs.s.options
      free == IF msg.requested_ip.some
              THEN IsFree(cs.s, msg.requested_ip.v, checks) ELSE Val(FALSE)
  IN
  IF free.panic THEN {DraftOut("panic", FALSE, 0, options, subnets, sto)}
  ELSE IF free.v
  THEN LET fa == ForceAllocate(cs.s, msg.requested_ip.v, checks) IN
       IF fa.status # "ok" THEN {DraftOut("none", FALSE, 0, options, subnets, sto)}
       ELSE Drafted(subnets, sto, fa.subnet, msg.requested_ip.v, options)
  ELSE LET a == Allocate(cs.s, checks) IN
       IF a.status = "panic" THEN {DraftOut("panic", FALSE, 0, options, subnets, sto)}
       ELSE IF a.status = "err" THEN {DraftOut("none", FALSE, 0, options, subnets, sto)}
       ELSE Drafted(subnets, sto, a.subnet, a.ip, options)

\* ====================================================================
\* StaticAllocator (src/src/allocators/static_alloc/static_allocator.rs)
\* ====================================================================
RECURSIVE BitAnd(_, _)
\* a & b on unsigned integers
BitAnd(a, b) ==
  IF a = 0 \/ b = 0 THEN 0
  ELSE (IF (a % 2 = 1) /\ (b % 2 = 1) THEN 1 ELSE 0) + 2 * BitAnd(a \div 2, b \div 2)

RECURSIVE CountOnes(_)
\* u32::count_ones
CountOnes(a) == IF a = 0 THEN 0 ELSE (a % 2) + CountOnes(a \div 2)

\* HardwareAddress::broadcast(): the 16 raw bytes of a HardwareAddress
HardwareAddressBroadcast == <<15, 15, 15, 15, 15, 15, 0, 0, 0, 0, 0, 0, 0, 0, 0, 0>>

\* the DhcpOptions of a static allocation, reduced to the subnet mask, the
\* requested address and one further option, the log servers
StaticOptions(subnet_mask, requested_ip, log_server) ==
  [subnet_mask |-> subnet_mask, requested_ip |-> requested_ip, log_server |-> log_server]

\* StaticAllocation::new(cid, ip_addr, options)
StaticAllocation(cid, ip_addr, options) ==
  [cid |-> cid, ip_addr |-> ip_addr, options |-> options]

\* outcome of a method of the static allocator
StaticOut(status, fault, subnets, registry, sto) ==
  [status |-> status, fault |-> fault,
   allocator |-> [subnets |-> subnets, registry |-> registry], storage |-> sto]

\* register_static_allocation
RegisterStaticAllocation(sa, sto, allocation, checks) ==
  LET unchanged == {StaticOut("err", FALSE, sa.subnets, sa.registry, sto)} IN
  IF ~allocation.options.subnet_mask.some \/ ~allocation.options.requested_ip.some
  THEN unchanged
  ELSE
  LET requested_ip == allocation.options.requested_ip.v
      subnet_mask == allocation.options.subnet_mask.v
      cidr == CidrSubnet(BitAnd(requested_ip, subnet_mask), CountOnes(subnet_mask))
      g == GetSubnet(sa.subnets, sto, cidr)
  IN
  IF g.status # "some" THEN unchanged
  ELSE
  LET fa == ForceAllocate(g.s, requested_ip, checks) IN
  IF fa.status = "panic" THEN {StaticOut("panic", FALSE, sa.subnets, sa.registry, sto)}
  ELSE IF fa.status = "err" THEN unchanged
  ELSE
  LET registry == [c \in DOMAIN sa.registry \cup {allocation.cid} |->
                     IF c = allocation.cid THEN allocation ELSE sa.registry[c]]
  IN {IF u.status = "ok"
      THEN StaticOut("ok", FALSE, u.subnets, registry, u.storage)
      ELSE StaticOut("panic", u.fault, u.subnets, registry, u.storage)
        : u \in UpdateSubnet(sa.subnets, sto, fa.subnet)}

\* remove_static_allocation
RemoveStaticAllocation(sa, sto, cid, checks) ==
  LET unchanged == {StaticOut("err", FALSE, sa.subnets, sa.registry, sto)} IN
  IF cid \notin DOMAIN sa.registry
  THEN {StaticOut("panic", FALSE, sa.subnets, sa.registry, sto)}
  ELSE
  LET allocation == sa.registry[cid] IN
  IF ~allocation.options.requested_ip.some THEN unchanged
  ELSE
  LET ip_addr == allocation.options.requested_ip.v
      g == GetMatchingSubnet(sa.subnets, sto, ip_addr, checks)
  IN
  IF g.status = "panic" THEN {StaticOut("panic", FALSE, sa.subnets, sa.registry, sto)}
  ELSE IF g.status = "none" THEN unchanged
  ELSE
  LET fs == FreeStaticAlloc(g.s, ip_addr) IN
  IF fs.status # "ok" THEN unchanged
  ELSE
  LET registry == [c \in DOMAIN sa.registry \ {allocation.cid} |-> sa.registry[c]]
  IN {IF u.status = "ok"
      THEN StaticOut("ok", FALSE, u.subnets, registry, u.storage)
      ELSE StaticOut("panic", u.fault, u.subnets, registry, u.storage)
        : u \in UpdateSubnet(sa.subnets, sto, fs.subnet)}

\* the length of HardwareAddress::raw
HW_ADDR_LEN == 16

\* outcome of StaticAllocator::allocate: Some(AllocationDraft), None or a
\* panic, and the allocator and storage it leaves
StaticDraftOut(status, ip, options, sa, sto) ==
  [status |-> status, ip |-> ip, options |-> options, allocator |-> sa, storage |-> sto]

\* StaticAllocator::allocate that leaves the log servers out of the draft:
\* C21 depends on the draft carrying every registered option
StaticAllocate_DropExtra(sa, sto, msg) ==
  IF /\ msg.variant \in {"DhcpDiscover", "DhcpRequest"}
     /\ msg.client_identifier.some
     /\ Len(msg.client_identifier.v) >= HW_ADDR_LEN
     /\ SubSeq(msg.client_identifier.v, 1, HW_ADDR_LEN) \in DOMAIN sa.registry
  THEN LET record == sa.registry[SubSeq(msg.client_identifier.v, 1, HW_ADDR_LEN)]
       IN StaticDraftOut("some", record.options.requested_ip.v,
                         [record.options EXCEPT !.log_server = None], sa, sto)
  ELSE StaticDraftOut("none", 0, NoOptions, sa, sto)

\* StaticAllocator::allocate: cidc[..16] panics on a client identifier of
\* fewer than 16 bytes; nothing is written
StaticAllocate(sa, sto, msg) ==
  IF msg.variant \notin {"DhcpDiscover", "DhcpRequest"}
  THEN StaticDraftOut("none", 0, NoOptions, sa, sto)
  ELSE IF ~msg.client_identifier.some
  THEN StaticDraftOut("none", 0, NoOptions, sa, sto)
  ELSE IF Len(msg.client_identifier.v) < HW_ADDR_LEN
  THEN StaticDraftOut("panic", 0, NoOptions, sa, sto)
  ELSE
  LET client_id == SubSeq(msg.client_identifier.v, 1, HW_ADDR_LEN) IN
  IF client_id \notin DOMAIN sa.registry
  THEN StaticDraftOut("none", 0, NoOptions, sa, sto)
  ELSE
  LET record == sa.registry[client_id] IN
  IF record.options.requested_ip.some
  THEN StaticDraftOut("some", record.options.requested_ip.v, record.options, sa, sto)
  ELSE StaticDraftOut("none", 0, NoOptions, sa, sto)

\* ------------------------------------------------------ allocators' inputs
\* the subnet the allocators are given: a /30 inside the address space
\* (192.168.0.0/24 in the tests)
AllocatorNetwork == 4

AllocatorPrefix == AddrBits - 2

\* the default lease time of a subnet read from the configuration, if any,
\* and the lease times (option 51) clients ask for: below a fifth of the
\* default, between, and three times the default
DefaultLeaseTimes == {10}

LeaseTimes == {2, 20, 30}

SubnetOptions == {NoOptions} \cup {[lease_time |-> Some(d)] : d \in DefaultLeaseTimes}

\* the netmask of a prefix
SubnetMask(prefix) == Modulus - 2 ^ (AddrBits - prefix)

\* addresses in messages and static allocations: those of the subnet, the
\* one below it and the one above it
AllocatorIps == (AllocatorNetwork - 1) .. (AllocatorNetwork + 2 ^ (AddrBits - AllocatorPrefix))

\* the messages given to allocate: DISCOVERs with and without a relay in the
\* subnet and with and without option 50; relayed DISCOVERs that carry
\* option 51; a REQUEST; and a message that is neither
DhcpMessages ==
  {DhcpMessage("DhcpDiscover", g, r, None) :
     g \in {0, AllocatorNetwork + 1},
     r \in {None} \cup {Some(ip) : ip \in AllocatorIps}}
  \cup {DhcpMessage("DhcpDiscover", AllocatorNetwork + 1, r, Some(l)) :
          r \in {None, Some(AllocatorNetwork + 2)}, l \in LeaseTimes}
  \cup {DhcpMessage("DhcpRequest", AllocatorNetwork + 1, None, None),
        DhcpMessage("DhcpRelease", AllocatorNetwork + 1, None, None)}

\* client identifiers of static allocations
Cids == {HardwareAddressBroadcast}

\* the static allocations given to register_static_allocation: one for each
\* address, as in the tests; one with a log server among its options; one
\* without a subnet mask; and one whose ip_addr is not the requested address
\* of its options
StaticAllocations ==
  {StaticAllocation(c, ip, StaticOptions(Some(SubnetMask(AllocatorPrefix)), Some(ip), None)) :
     c \in Cids, ip \in AllocatorIps}
  \cup {StaticAllocation(c, AllocatorNetwork + 1, o) :
          c \in Cids,
          o \in {StaticOptions(None, Some(AllocatorNetwork + 1), None),
                 StaticOptions(Some(SubnetMask(AllocatorPrefix)), Some(AllocatorNetwork + 1),
                               Some(<<1>>)),
                 StaticOptions(Some(SubnetMask(AllocatorPrefix)), Some(AllocatorNetwork + 2),
                               None)}}

\* the client identifiers (option 61) of the messages given to the static
\* allocator: none, the registered one, one of another client, the six
\* bytes of a MAC address, and the registered one followed by a byte
ClientIdentifiers ==
  {None, Some(HardwareAddressBroadcast),
   Some([i \in 1..HW_ADDR_LEN |-> IF i = 1 THEN 1 ELSE 0]),
   Some(SubSeq(HardwareAddressBroadcast, 1, 6)),
   Some(HardwareAddressBroadcast \o <<0>>)}

\* the chadd of the packets given to the static allocator: the hardware
\* address registered in the tests, and that of another client
Chadds == {HardwareAddressBroadcast, [i \in 1..HW_ADDR_LEN |-> IF i = 1 THEN 1 ELSE 0]}

\* the messages given to StaticAllocator::allocate
StaticMessages ==
  {[variant |-> v, chadd |-> h, client_identifier |-> c] :
     v \in {"DhcpDiscover", "DhcpRequest", "DhcpRelease"}, h \in Chadds,
     c \in ClientIdentifiers}

\* ------------------------------------------------------ allocators' actions
\* DynamicAllocator::new and StaticAllocator::new over one shared storage
InitAllocators ==
  /\ TransactionsIdle
  /\ AllocatorsIdle
  /\ codec = Null
  /\ binary_search = "early_return"
  /\ subnet = Null
  /\ overflow_checks \in BOOLEAN

\* DynamicAllocator::register_subnet, called once
DoRegisterSubnet ==
  /\ DOMAIN dynamic_allocator.subnets = {}
  /\ \E options \in SubnetOptions :
       \E o \in InsertSubnet(dynamic_allocator.subnets, shared_storage,
                             Ipv4SubnetNew(AllocatorNetwork, AllocatorPrefix, options)) :
         /\ dynamic_allocator' = [subnets |-> o.subnets]
         /\ shared_storage' = o.storage
  /\ UNCHANGED <<tm, subnet, overflow_checks, binary_search, static_allocator, granted, static_draft, codec, output>>

\* StaticAllocator::register_subnet, called once
DoStaticRegisterSubnet ==
  /\ DOMAIN static_allocator.subnets = {}
  /\ \E o \in InsertSubnet(static_allocator.subnets, shared_storage,
                           Ipv4SubnetNew(AllocatorNetwork, AllocatorPrefix, NoOptions)) :
       /\ static_allocator' = [static_allocator EXCEPT !.subnets = o.subnets]
       /\ shared_storage' = o.storage
  /\ UNCHANGED <<tm, subnet, overflow_checks, binary_search, dynamic_allocator, granted, static_draft, codec, output>>

\* DynamicAllocator::allocate; granted collects the addresses of the drafts
DoDynamicAllocate ==
  /\ \E msg \in DhcpMessages :
       \E o \in DynamicAllocate(dynamic_allocator.subnets, shared_storage, msg, overflow_checks) :
         /\ o.status # "panic"
         /\ dynamic_allocator' = [subnets |-> o.subnets]
         /\ shared_storage' = o.storage
         /\ granted' = IF o.status = "some" THEN granted \cup {o.ip} ELSE granted
  /\ UNCHANGED <<tm, subnet, overflow_checks, binary_search, static_allocator, static_draft, codec, output>>

StaticEffect(o) ==
  /\ o.status # "panic"
  /\ static_allocator' = o.allocator
  /\ shared_storage' = o.storage
  /\ UNCHANGED <<tm, subnet, overflow_checks, binary_search, dynamic_allocator, granted, static_draft, codec, output>>

DoRegisterStaticAllocation ==
  \E allocation \in StaticAllocations :
    \E o \in RegisterStaticAllocation(static_allocator, shared_storage, allocation,
                                      overflow_checks) : StaticEffect(o)

DoRemoveStaticAllocation ==
  \E cid \in Cids :
    \E o \in RemoveStaticAllocation(static_allocator, shared_storage, cid,
                                    overflow_checks) : StaticEffect(o)

NextAllocators ==
  \/ DoRegisterSubnet
  \/ DoStaticRegisterSubnet
  \/ DoDynamicAllocate
  \/ DoRegisterStaticAllocation
  \/ DoRemoveStaticAllocation

SpecAllocators == InitAllocators /\ [][NextAllocators]_vars

\* StaticAllocator::allocate; static_draft is the draft it returned last
DoStaticAllocate ==
  /\ \E msg \in StaticMessages :
       LET o == StaticAllocate(static_allocator, shared_storage, msg) IN
       /\ o.status # "panic"
       /\ static_allocator' = o.allocator
       /\ shared_storage' = o.storage
       /\ static_draft' = IF o.status = "some"
                          THEN Some([ip_addr |-> o.ip, options |-> o.options])
                          ELSE None
  /\ UNCHANGED <<tm, subnet, overflow_checks, binary_search, dynamic_allocator, granted, codec, output>>

\* the static allocator on its own: its subnet, its registry and the drafts
\* it returns
NextStaticAllocator ==
  \/ DoStaticRegisterSubnet
  \/ DoRegisterStaticAllocation
  \/ DoRemoveStaticAllocation
  \/ DoStaticAllocate

SpecStaticAllocator == InitAllocators /\ [][NextStaticAllocator]_vars

\* ------------------------------------------------------------------ C35
\* C35 as claimed: in every reachable state, for every entry of the
\* registry of the static allocator, with address A, no outcome of
\* DynamicAllocator::allocate is a draft for A, and A is force-allocated in
\* every subnet of the dynamic allocator that contains it
C35_StaticExcludesDynamic ==
  \A cid \in DOMAIN static_allocator.registry :
    LET A == static_allocator.registry[cid].options.requested_ip.v IN
    /\ \A msg \in DhcpMessages :
         \A o \in DynamicAllocate(dynamic_allocator.subnets, shared_storage, msg,
                                  overflow_checks) :
           o.status = "some" => o.ip # A
    /\ \A k \in DOMAIN dynamic_allocator.subnets :
         LET dy == Fetch(dynamic_allocator.subnets, shared_storage, k) IN
         (dy.status = "some" /\ Contains(dy.s, A, overflow_checks) = Val(TRUE)) =>
           A \in dy.s.force_allocated

\* ------------------------------------------------------------------ C40
\* C40 as claimed: in every reachable state the addresses force-allocated in
\* the subnets of the static allocator are the requested addresses of the
\* entries of its registry, and a register_static_allocation or
\* remove_static_allocation that returns Err leaves the allocator and the
\* storage as they were
C40_ReservationsMatchRegistry ==
  /\ UNION {Fetch(static_allocator.subnets, shared_storage, k).s.force_allocated :
              k \in {j \in DOMAIN static_allocator.subnets :
                       Fetch(static_allocator.subnets, shared_storage, j).status = "some"}}
       = {static_allocator.registry[cid].options.requested_ip.v :
            cid \in DOMAIN static_allocator.registry}
  /\ \A a \in StaticAllocations :
       \A o \in RegisterStaticAllocation(static_allocator, shared_storage, a, overflow_checks) :
         o.status = "err" =>
           o.allocator = static_allocator /\ o.storage = shared_storage
  /\ \A cid \in Cids :
       \A o \in RemoveStaticAllocation(static_allocator, shared_storage, cid, overflow_checks) :
         o.status = "err" =>
           o.allocator = static_allocator /\ o.storage = shared_storage

\* ====================================================================
\* Responder hook (src/src/hooks/responder.rs)
\* ====================================================================
\* DhcpV4Packet as the hook receives it, reduced to the fields the hook and
\* the allocators read: option 53, xid, giaddr, chadd, and options 61, 50, 51
InputPacket(message_type, xid, giaddr, chadd, client_identifier, requested_ip, lease_time) ==
  [message_type |-> message_type, xid |-> xid, giaddr |-> giaddr, chadd |-> chadd,
   client_identifier |-> client_identifier, requested_ip |-> requested_ip,
   lease_time |-> lease_time]

\* the output packet of a PacketContext no hook has written (built outside
\* this repository): every header field zero and no option
OutputNew ==
  [op |-> 0, htype |-> 0, hlen |-> 0, hops |-> 0, xid |-> 0, giaddr |-> 0,
   chadd |-> [i \in 1..HW_ADDR_LEN |-> 0], yiaddr |-> 0,
   options |-> [message_type |-> None]]

\* outcome of a step of the hook: it returned or panicked, the output
\* packet, the allocators and their storage, and the allocator that drafted
HookOut(status, out, sa, subnets, sto, by) ==
  [status |-> status, output |-> out, static_allocator |-> sa, subnets |-> subnets,
   storage |-> sto, by |-> by]

\* the output after a draft: yiaddr, the options of the draft, message type 2
Offered(out, ip, options) ==
  [out EXCEPT !.yiaddr = ip, !.options = [message_type |-> Some(2)] @@ options]

\* the second half of _handle_dhcp_discover: the dynamic allocator
DynamicOffer(sa, subnets, sto, input, out, checks) ==
  {IF d.status = "panic" THEN HookOut("panic", out, sa, d.subnets, d.storage, "none")
   ELSE IF d.status = "some"
   THEN HookOut("ok", Offered(out, d.ip, d.options), sa, d.subnets, d.storage, "dynamic")
   ELSE HookOut("ok", out, sa, d.subnets, d.storage, "none")
     : d \in DynamicAllocate(subnets, sto,
                             DhcpMessage("DhcpDiscover", input.giaddr, input.requested_ip,
                                         input.lease_time), checks)}

\* the first half of _handle_dhcp_discover, given the result of the static
\* allocator: its draft is offered, and the dynamic allocator is not called
StaticOffer(d, subnets, input, out, checks) ==
  IF d.status = "panic" THEN {HookOut("panic", out, d.allocator, subnets, d.storage, "none")}
  ELSE IF d.status = "some"
  THEN {HookOut("ok", Offered(out, d.ip, d.options), d.allocator, subnets, d.storage,
                "static")}
  ELSE DynamicOffer(d.allocator, subnets, d.storage, input, out, checks)

\* _handle_dhcp_discover
HandleDhcpDiscover(sa, subnets, sto, input, out, checks) ==
  StaticOffer(StaticAllocate(sa, sto, [variant |-> "DhcpDiscover", chadd |-> input.chadd,
                                       client_identifier |-> input.client_identifier]),
              subnets, input, out, checks)

\* _fill_dhcp_header that leaves option 61 out: C33 depends on the copy of
\* the client identifier
FillDhcpHeader_NoClientIdentifier(input, out, ipv4) ==
  [out EXCEPT !.op = 2, !.htype = 1, !.hlen = 6, !.hops = 0, !.xid = input.xid,
              !.giaddr = input.giaddr, !.chadd = input.chadd,
              !.options = [server_identifier |-> ipv4, client_identifier |-> None] @@ @]

\* _fill_dhcp_header, ipv4 being NetworkCfg::ipv4() of the configuration
FillDhcpHeader(input, out, ipv4) ==
  [out EXCEPT !.op = 2, !.htype = 1, !.hlen = 6, !.hops = 0, !.xid = input.xid,
              !.giaddr = input.giaddr, !.chadd = input.chadd,
              !.options = [server_identifier |-> ipv4,
                           client_identifier |-> input.client_identifier] @@ @]

\* the header filled in after the handler of the message type returned
Filled(h, input, ipv4) ==
  IF h.status = "panic" THEN h
  ELSE [h EXCEPT !.output = FillDhcpHeader(input, h.output, ipv4)]

\* responder_hook: message_type().unwrap() panics on a packet without option
\* 53; the REQUEST handler and the other types write nothing
ResponderHook(sa, subnets, sto, input, ipv4, checks) ==
  IF ~input.message_type.some
  THEN {HookOut("panic", OutputNew, sa, subnets, sto, "none")}
  ELSE IF input.message_type.v = 1
  THEN {Filled(h, input, ipv4) : h \in HandleDhcpDiscover(sa, subnets, sto, input, OutputNew, checks)}
  ELSE {Filled(HookOut("ok", OutputNew, sa, subnets, sto, "none"), input, ipv4)}

\* ------------------------------------------------------- responder's inputs
\* the IPv4 address of the configured interface (127.0.0.1 in the tests)
ServerIpv4s == {Some(1)}

\* the packets the hook is run on: a DISCOVER, a REQUEST and a packet
\* without option 53, direct or relayed from the subnet, without client
\* identifier or with that of the static allocation or one of 6 bytes, and
\* with or without option 50
HookPackets ==
  {InputPacket(t, 1, g, HardwareAddressBroadcast, c, r, None) :
     t \in {None, Some(1), Some(3)},
     g \in {0, AllocatorNetwork + 1},
     c \in {None, Some(HardwareAddressBroadcast),
            Some(SubSeq(HardwareAddressBroadcast, 1, 6))},
     r \in {None, Some(AllocatorNetwork + 2)}}

\* ------------------------------------------------------ responder's actions
\* the hook run on the PacketContext of one packet, with both allocators
\* among the services; output is the output packet it leaves and the
\* allocator that drafted the address
DoResponderHook ==
  /\ output = Null
  /\ \E input \in HookPackets, ipv4 \in ServerIpv4s :
       \E o \in ResponderHook(static_allocator, dynamic_allocator.subnets, shared_storage,
                              input, ipv4, overflow_checks) :
         /\ o.status # "panic"
         /\ output' = [kind |-> "packet", packet |-> o.output, by |-> o.by]
         /\ static_allocator' = o.static_allocator
         /\ dynamic_allocator' = [subnets |-> o.subnets]
         /\ shared_storage' = o.storage
         /\ granted' = IF o.by = "dynamic" THEN granted \cup {o.output.yiaddr} ELSE granted
  /\ UNCHANGED <<tm, subnet, overflow_checks, binary_search, static_draft, codec>>

NextResponder ==
  \/ DoRegisterSubnet
  \/ DoStaticRegisterSubnet
  \/ DoRegisterStaticAllocation
  \/ DoRemoveStaticAllocation
  \/ DoResponderHook

SpecResponder == InitAllocators /\ [][NextResponder]_vars

\* ------------------------------------------------------------------ C33
\* the messages the hook gives to the two allocators for a packet
StaticMessageOf(input) ==
  [variant |-> "DhcpDiscover", chadd |-> input.chadd,
   client_identifier |-> input.client_identifier]

DynamicMessageOf(input) ==
  DhcpMessage("DhcpDiscover", input.giaddr, input.requested_ip, input.lease_time)

\* C33: in every reachable state and for every DISCOVER on which the hook
\* returns, the output has op = 2, htype = 1, hlen = 6, hops = 0, the xid,
\* giaddr and chadd of the input, option 54 equal to the IPv4 address of the
\* configuration and option 61 equal to that of the input; when the static
\* allocator returns a draft, yiaddr is its address, the message type is 2
\* and the dynamic allocator and its subnets are left as they were; when it
\* returns none, the output is that of one of the outcomes of the dynamic
\* allocator, with its address as yiaddr and message type 2 when it
\* returned a draft
C33_DiscoverReply ==
  \A input \in HookPackets, ipv4 \in ServerIpv4s :
    input.message_type = Some(1) =>
      \A o \in ResponderHook(static_allocator, dynamic_allocator.subnets, shared_storage,
                             input, ipv4, overflow_checks) :
        o.status = "ok" =>
          LET out == o.output
              sd == StaticAllocate(static_allocator, shared_storage, StaticMessageOf(input))
          IN /\ out.op = 2 /\ out.htype = 1 /\ out.hlen = 6 /\ out.hops = 0
             /\ out.xid = input.xid
             /\ out.giaddr = input.giaddr
             /\ out.chadd = input.chadd
             /\ out.options.server_identifier = ipv4
             /\ out.options.client_identifier = input.client_identifier
             /\ sd.status # "panic"
             /\ sd.status = "some" =>
                  /\ o.by = "static"
                  /\ out.yiaddr = sd.ip
                  /\ out.options.message_type = Some(2)
                  /\ o.subnets = dynamic_allocator.subnets
                  /\ o.storage = shared_storage
             /\ sd.status = "none" =>
                  \E d \in DynamicAllocate(dynamic_allocator.subnets, shared_storage,
                                           DynamicMessageOf(input), overflow_checks) :
                    /\ d.status # "panic"
                    /\ o.subnets = d.subnets
                    /\ o.storage = d.storage
                    /\ IF d.status = "some"
                       THEN /\ o.by = "dynamic"
                            /\ out.yiaddr = d.ip
                            /\ out.options.message_type = Some(2)
                       ELSE o.by = "none"

\* the hook has answered a DISCOVER with the draft of the static allocator
\* while the dynamic allocator had a subnet that holds the client's relay
C33_Witness ==
  /\ output # Null
  /\ output.by = "static"
  /\ output.packet.op = 2
  /\ output.packet.options.message_type = Some(2)
  /\ output.packet.giaddr = AllocatorNetwork + 1
  /\ DOMAIN dynamic_allocator.subnets # {}

\* ------------------------------------------------------------ subnet map
\* the subnets given to insert_subnet: three that do not overlap, as in
\* test_get_matching_subnet, and subnets that contain others
MapSubnets == {<<0, 2>>, <<4, 2>>, <<12, 2>>, <<0, 1>>, <<6, 3>>, <<2, 3>>}

\* SubnetV4Map::new over an empty storage, in a build with either binary
\* search
InitSubnetMap ==
  /\ TransactionsIdle
  /\ AllocatorsIdle
  /\ codec = Null
  /\ subnet = Null
  /\ overflow_checks \in BOOLEAN
  /\ binary_search \in BinarySearches

\* insert_subnet, through DynamicAllocator::register_subnet
DoInsertSubnet ==
  /\ \E np \in MapSubnets :
       \E o \in InsertSubnet(dynamic_allocator.subnets, shared_storage,
                             Ipv4SubnetNew(np[1], np[2], NoOptions)) :
         /\ o.status = "ok"
         /\ dynamic_allocator' = [subnets |-> o.subnets]
         /\ shared_storage' = o.storage
  /\ UNCHANGED <<tm, subnet, overflow_checks, binary_search, static_allocator, granted,
                 static_draft, codec, output>>

NextSubnetMap == DoInsertSubnet

SpecSubnetMap == InitSubnetMap /\ [][NextSubnetMap]_vars

\* -------------------------------------------------- allocators observations
\* the subnet allocate selects for a message, and the outcomes of the call
Selected(msg) ==
  GetClientSubnet(dynamic_allocator.subnets, shared_storage, msg, overflow_checks)

Drafts(msg) ==
  DynamicAllocate(dynamic_allocator.subnets, shared_storage, msg, overflow_checks)

\* the last address of a subnet: network | (2^(32 - prefix) - 1)
LastOf(s) == s.network_addr + SizeOf(s) - 1

\* ------------------------------------------------------------------ C16
\* C16 as claimed: in every reachable state, for every subnet of the static
\* allocator, force_allocate of its network address and of its broadcast
\* address returns Err, and register_static_allocation for either address
\* returns Err and leaves the registry, the map and the storage as they were
C16_NetworkBroadcastRefused ==
  \A k \in DOMAIN static_allocator.subnets :
    LET g == Fetch(static_allocator.subnets, shared_storage, k) IN
    g.status = "some" =>
      \A ip \in {g.s.network_addr, LastOf(g.s)} :
        /\ ForceAllocate(g.s, ip, overflow_checks).status = "err"
        /\ \A c \in Cids :
             \A o \in RegisterStaticAllocation(
                        static_allocator, shared_storage,
                        StaticAllocation(c, ip, StaticOptions(Some(SubnetMask(g.s.prefix)), Some(ip), None)),
                        overflow_checks) :
               /\ o.status = "err"
               /\ o.allocator = static_allocator
               /\ o.storage = shared_storage

C18_DistinctDrafts ==
  \A msg \in DhcpMessages :
    \A o \in Drafts(msg) : o.status = "some" => o.ip \notin granted

\* ------------------------------------------------------------------ C19
\* C19 as claimed: in every reachable state, for every message with a
\* giaddr that selects a subnet and an option 50 address below or above
\* that subnet's range, allocate does not panic and returns what
\* subnet.allocate() yields: a draft with that address, or None when it
\* fails (the panic of a failing storage.store left aside)
C19_OutsideRequestIgnored ==
  \A msg \in DhcpMessages :
    (/\ msg.variant \in {"DhcpDiscover", "DhcpRequest"}
     /\ msg.giaddr # 0
     /\ msg.requested_ip.some
     /\ Selected(msg).status = "some"
     /\ (\/ msg.requested_ip.v < Selected(msg).s.network_addr
         \/ msg.requested_ip.v > LastOf(Selected(msg).s))) =>
      LET a == Allocate(Selected(msg).s, overflow_checks) IN
      \A o \in Drafts(msg) :
        ~o.fault =>
          /\ o.status # "panic"
          /\ a.status = "ok" => (o.status = "some" /\ o.ip = a.ip)
          /\ a.status # "ok" => o.status = "none"

\* ------------------------------------------------------------------ C20
\* C20 as claimed: in every reachable state, for every message with option
\* 51 = R for which the selected subnet has a default lease time D, the
\* lease time of a draft that allocate returns is R if D/5 < R < 3*D and D
\* otherwise
C20_LeaseTimeNegotiated ==
  \A msg \in DhcpMessages :
    (/\ msg.lease_time.some
     /\ Selected(msg).status = "some"
     /\ Selected(msg).s.options.lease_time.some) =>
      LET R == msg.lease_time.v
          D == Selected(msg).s.options.lease_time.v
      IN \A o \in Drafts(msg) :
           o.status = "some" =>
             o.options.lease_time = Some(IF (D \div 5) < R /\ R < 3 * D THEN R ELSE D)

\* ------------------------------------------------------------------ C21
\* C21: in every reachable state, for every client identifier of the
\* registry, registered with the options O whose requested address is A, and
\* every DISCOVER or REQUEST that carries this identifier in option 61,
\* StaticAllocator::allocate returns a draft with address A and options O,
\* the log servers included, and leaves the allocator (registry and subnet
\* map) and the storage of the subnets as they were; and the same holds for
\* the allocation of a register_static_allocation that just succeeded
AllocatesRecord(sa, sto, cid, allocation) ==
  \A msg \in StaticMessages :
    (msg.variant \in {"DhcpDiscover", "DhcpRequest"} /\ msg.client_identifier = Some(cid)) =>
      LET d == StaticAllocate(sa, sto, msg) IN
      /\ d.status = "some"
      /\ d.ip = allocation.options.requested_ip.v
      /\ d.options = allocation.options
      /\ d.allocator = sa
      /\ d.storage = sto

Key16(bytes) == [i \in 1..HW_ADDR_LEN |-> IF i <= Len(bytes) THEN bytes[i] ELSE 0]

\* C32 as claimed: in every reachable state, for every DISCOVER or REQUEST,
\* StaticAllocator::allocate does not panic and looks the registry up under
\* the key made of option 61 when the message carries it and of chadd
\* otherwise, truncated or zero-padded to 16 bytes: it returns the draft of
\* the entry under that key when there is one, and None when there is none
C32_LookupKey ==
  \A msg \in StaticMessages :
    msg.variant \in {"DhcpDiscover", "DhcpRequest"} =>
      LET key == IF msg.client_identifier.some THEN Key16(msg.client_identifier.v)
                 ELSE msg.chadd
          d == StaticAllocate(static_allocator, shared_storage, msg)
      IN /\ d.status # "panic"
         /\ IF key \in DOMAIN static_allocator.registry
               /\ static_allocator.registry[key].options.requested_ip.some
            THEN /\ d.status = "some"
                 /\ d.ip = static_allocator.registry[key].options.requested_ip.v
            ELSE d.status = "none"

\* ------------------------------------------------------------------ C22
\* C22: in every reachable state, after every register_static_allocation(a)
\* that returns Ok the subnet the map returns for the address of a reports
\* is_free = false for it; remove_static_allocation(a.cid) called next can
\* return Ok, and when it returns the subnet the map returns reports
\* is_free = true for the address and the registry has no entry for a.cid;
\* its only other outcome is the panic of update_subnet when storage.store
\* fails
HeldFree(sa, sto, ip) ==
  LET g == GetMatchingSubnet(sa.subnets, sto, ip, overflow_checks) IN
  IF g.status = "some" THEN IsFree(g.s, ip, overflow_checks) ELSE Panic

Registered ==
  {Fetch(dynamic_allocator.subnets, shared_storage, k).s :
     k \in {j \in DOMAIN dynamic_allocator.subnets :
              Fetch(dynamic_allocator.subnets, shared_storage, j).status = "some"}}

Containing(ip) == {s \in Registered : s.network_addr <= ip /\ ip <= LastOf(s)}

\* C23 as claimed: in every reachable state of the map and for every address
\* ip, get_matching_subnet(ip) returns None when no subnet of the map
\* contains ip, and otherwise returns a subnet of the map that contains ip
\* and whose prefix is the longest among those that do
C23_LongestPrefixMatch ==
  \A ip \in Ips :
    LET g == GetMatchingSubnet(dynamic_allocator.subnets, shared_storage, ip, overflow_checks)
    IN IF Containing(ip) = {} THEN g.status = "none"
       ELSE /\ g.status = "some"
            /\ g.s \in Containing(ip)
            /\ \A s \in Containing(ip) : s.prefix <= g.s.prefix

\* ====================================================================
\* DhcpOptions and its codec (src/src/packet/dhcp_options.rs)
\* ====================================================================
\* DhcpOptions::new(): no option defined, every field None. An Ipv4Addr is
\* the sequence of its four bytes; a u32 is the pair of its two 16-bit halves
DhcpOptionsNew ==
  [output_order |-> None, defined_options |-> {},
   subnet_mask |-> None, time_server |-> None, name_server |-> None, hostname |-> None,
   domain_name |-> None, broadcast_addr |-> None, requested_ip |-> None,
   lease_time |-> None, message_type |-> None, server_identifier |-> None,
   parameter_request |-> None, renewal_time |-> None, rebinding_time |-> None,
   client_identifier |-> None, interface_mtu |-> None, wpad |-> None]

\* a setter: the field is assigned and the code joins defined_options
SetOption(options, code, field, value) ==
  [options EXCEPT ![field] = value, !.defined_options = @ \cup {code}]

\* _parse_ipv4_type
ParseIpv4Type(bytes) == IF Len(bytes) < 4 THEN None ELSE Some(SubSeq(bytes, 1, 4))

\* _parse_ipv4_list_type: the loop never shortens bytes, so it ends only
\* when fewer than four bytes were given
ParseIpv4ListType(bytes) ==
  IF Len(bytes) < 4 THEN [status |-> "ok", v |-> Some(<<>>)]
  ELSE [status |-> "diverges", v |-> None]

\* _parse_string_type: String::from_utf8(..).unwrap_or_default(); the byte
\* strings of the model are ASCII or contain the byte 255, which no UTF-8
\* string contains
ParseStringType(bytes) ==
  IF \A i \in 1..Len(bytes) : bytes[i] < 128 THEN Some(bytes) ELSE Some(<<>>)

\* BigEndian::read_u16, which panics on fewer than two bytes
ReadU16(bytes) ==
  IF Len(bytes) < 2 THEN Panic ELSE Val(bytes[1] * 256 + bytes[2])

\* BigEndian::read_u32, which panics on fewer than four bytes
ReadU32(bytes) ==
  IF Len(bytes) < 4 THEN Panic
  ELSE Val(<<bytes[1] * 256 + bytes[2], bytes[3] * 256 + bytes[4]>>)

\* outcome of the decoder: the record, a panic, or a loop without end
Decoded(status, options) == [status |-> status, options |-> options]

\* data.drain(..len) leaves the bytes after the first len
Drain(data, len) == SubSeq(data, len + 1, Len(data))

RECURSIVE DecodeFrom(_, _)
\* the loop of impl From<&[u8]> for DhcpOptions
DecodeFrom(data0, options) ==
  IF data0 = <<>> THEN Decoded("ok", options)
  ELSE
  LET opt_code == Head(data0)
      data1 == Tail(data0)
  IN
  IF opt_code = 0 \/ opt_code = 255 THEN DecodeFrom(data1, options)
  ELSE IF data1 = <<>> THEN Decoded("panic", options)
  ELSE
  LET len == Head(data1)
      data == Tail(data1)
  IN
  IF Len(data) < len THEN Decoded("ok", options)
  ELSE
  LET raw_bytes == SubSeq(data, 1, len)
      rest == Drain(data, len)
  IN
  CASE opt_code \in {1, 28, 50} ->
         DecodeFrom(rest, SetOption(options, opt_code,
                      CASE opt_code = 1 -> "subnet_mask"
                        [] opt_code = 28 -> "broadcast_addr"
                        [] OTHER -> "requested_ip",
                      ParseIpv4Type(raw_bytes)))
    [] opt_code \in {4, 5, 42} ->
         LET list == ParseIpv4ListType(raw_bytes) IN
         IF list.status # "ok" THEN Decoded(list.status, options)
         ELSE DecodeFrom(rest, IF opt_code = 5
                               THEN SetOption(options, 5, "name_server", list.v)
                               ELSE SetOption(options, 4, "time_server", list.v))
    [] opt_code \in {12, 15} ->
         DecodeFrom(rest, SetOption(options, opt_code,
                      IF opt_code = 12 THEN "hostname" ELSE "domain_name",
                      ParseStringType(raw_bytes)))
    [] opt_code = 26 ->
         LET mtu == ReadU16(raw_bytes) IN
         IF mtu.panic THEN Decoded("panic", options)
         ELSE DecodeFrom(rest, SetOption(options, 26, "interface_mtu", Some(mtu.v)))
    [] opt_code \in {51, 54, 58, 59} ->
         LET word == ReadU32(raw_bytes) IN
         IF word.panic THEN Decoded("panic", options)
         ELSE DecodeFrom(rest, SetOption(options, opt_code,
                           CASE opt_code = 51 -> "lease_time"
                             [] opt_code = 54 -> "server_identifier"
                             [] opt_code = 58 -> "renewal_time"
                             [] OTHER -> "rebinding_time",
                           Some(word.v)))
    [] opt_code = 53 ->
         IF data = <<>> THEN Decoded("panic", options)
         ELSE IF Head(data) > 9 THEN Decoded("ok", options)
         ELSE DecodeFrom(Tail(data), SetOption(options, 53, "message_type", Some(Head(data))))
    [] opt_code = 55 ->
         DecodeFrom(rest, IF len = 0 THEN options
                          ELSE SetOption(options, 55, "parameter_request",
                                 Some((IF options.parameter_request.some
                                       THEN options.parameter_request.v ELSE <<>>)
                                      \o raw_bytes)))
    [] opt_code = 61 ->
         DecodeFrom(rest, SetOption(options, 61, "client_identifier", Some(raw_bytes)))
    [] opt_code = 252 ->
         DecodeFrom(rest, [options EXCEPT !.wpad = ParseStringType(raw_bytes)])
    [] OTHER -> DecodeFrom(rest, options)

\* DhcpOptions::from(bytes)
Decode(bytes) == DecodeFrom(bytes, DhcpOptionsNew)

\* u16::to_be_bytes
U16Bytes(v) == <<v \div 256, v % 256>>

\* u32::to_be_bytes
U32Bytes(v) == U16Bytes(v[1]) \o U16Bytes(v[2])

\* bytes.len() as u8, then the bytes
WithLen(bytes) == <<Len(bytes) % 256>> \o bytes

\* _format_ipv4_list
FormatIpv4List(addrs) ==
  LET RECURSIVE Cat(_)
      Cat(l) == IF l = <<>> THEN <<>> ELSE Head(l) \o Cat(Tail(l))
  IN Cat(addrs)

\* _append_option: the bytes it appends, or the panic of unwrap on a field
\* that is None
AppendOption(option_code, options) ==
  LET field == CASE option_code = 1 -> options.subnet_mask
                 [] option_code \in {4, 42} -> options.time_server
                 [] option_code = 5 -> options.name_server
                 [] option_code = 12 -> options.hostname
                 [] option_code = 15 -> options.domain_name
                 [] option_code = 26 -> options.interface_mtu
                 [] option_code = 28 -> options.broadcast_addr
                 [] option_code = 50 -> options.requested_ip
                 [] option_code = 51 -> options.lease_time
                 [] option_code = 53 -> options.message_type
                 [] option_code = 54 -> options.server_identifier
                 [] option_code = 55 -> options.parameter_request
                 [] option_code = 58 -> options.renewal_time
                 [] option_code = 59 -> options.rebinding_time
                 [] option_code = 61 -> options.client_identifier
                 [] option_code = 252 -> options.wpad
                 [] OTHER -> Some(<<>>)
  IN
  IF ~field.some THEN Panic
  ELSE Val(<<option_code>> \o
           (CASE option_code = 1 -> <<4>> \o field.v
              [] option_code \in {4, 5, 42} -> WithLen(FormatIpv4List(field.v))
              [] option_code \in {12, 15, 55, 61, 252} -> WithLen(field.v)
              [] option_code = 26 -> <<2>> \o U16Bytes(field.v)
              [] option_code \in {28, 50} -> <<2>> \o field.v
              [] option_code \in {51, 54, 58, 59} -> <<4>> \o U32Bytes(field.v)
              [] option_code = 53 -> <<1, field.v>>
              [] OTHER -> <<>>))

\* the orders in which a HashSet can be iterated
RECURSIVE Orders(_)
Orders(set) ==
  IF set = {} THEN {<<>>}
  ELSE UNION {{<<x>> \o rest : rest \in Orders(set \ {x})} : x \in set}

RECURSIVE AppendEach(_, _)
\* _append_option for each code of a sequence
AppendEach(codes, options) ==
  IF codes = <<>> THEN Val(<<>>)
  ELSE LET first == AppendOption(Head(codes), options)
           rest == AppendEach(Tail(codes), options)
       IN IF first.panic \/ rest.panic THEN Panic ELSE Val(first.v \o rest.v)

\* impl From<DhcpOptions> for Vec<u8>: output_order is None in every record
\* the decoder builds, so the options come out in the order of the HashSet
\* defined_options, and 0xff ends them
Encode(options) ==
  {LET buf == AppendEach(order, options) IN
   IF buf.panic THEN [status |-> "panic", bytes |-> <<>>]
   ELSE [status |-> "ok", bytes |-> buf.v \o <<255>>]
     : order \in Orders(options.defined_options)}

\* ------------------------------------------------------------ codec inputs
\* the number of options of an input byte string
MaxOptions == 2

\* well-formed options, as clients send them (OPTION_BYTES of the tests)
WholeOptions ==
  {<<53, 1, 5>>, <<54, 4, 192, 168, 0, 254>>, <<51, 4, 0, 0, 168, 192>>,
   <<1, 4, 255, 255, 255, 0>>, <<3, 4, 192, 168, 0, 254>>, <<50, 4, 192, 168, 0, 3>>,
   <<5, 4, 8, 8, 8, 8>>, <<12, 2, 80, 67>>, <<26, 2, 5, 220>>, <<55, 2, 1, 3>>,
   <<61, 3, 1, 15, 15>>, <<252, 1, 97>>, <<0>>, <<255>>}

\* options with a length other than that of their type, and options cut
\* short: a code with no length byte, fewer payload bytes than announced
OddOptions ==
  {<<1, 2, 255, 255>>, <<5, 2, 8, 8>>, <<5, 0>>, <<26, 1, 5>>, <<51, 2, 0, 60>>,
   <<53, 0>>, <<53, 1, 10>>, <<12, 1, 255>>}

TruncatedOptions == {<<53>>, <<50, 4, 192, 168>>, <<5, 8, 8, 8, 8, 8>>}

RECURSIVE Concatenations(_, _)
\* the byte strings made of at most n of the given options
Concatenations(options, n) ==
  IF n = 0 THEN {<<>>}
  ELSE LET shorter == Concatenations(options, n - 1)
       IN shorter \cup {s \o o : s \in shorter, o \in options}

\* the byte strings given to the decoder: options one after the other, the
\* last of which may be cut short
InputBytes ==
  LET whole == Concatenations(WholeOptions \cup OddOptions, MaxOptions - 1) IN
  {s \o o : s \in whole, o \in WholeOptions \cup OddOptions \cup TruncatedOptions}
  \cup {<<>>}

\* ----------------------------------------------------------- codec actions
\* the codec holds a byte string received from a client
InitCodec ==
  /\ TransactionsIdle
  /\ AllocatorsIdle
  /\ subnet = Null
  /\ overflow_checks = FALSE
  /\ binary_search = "early_return"
  /\ \E bytes \in InputBytes : codec = [kind |-> "bytes", bytes |-> bytes]

CodecEffect(c) ==
  /\ codec' = c
  /\ UNCHANGED <<tm, subnet, overflow_checks, binary_search, shared_storage,
                 dynamic_allocator, static_allocator, granted, static_draft, output>>

\* DhcpOptions::from(bytes) that returns
DoDecode ==
  /\ codec.kind = "bytes"
  /\ Decode(codec.bytes).status = "ok"
  /\ CodecEffect([kind |-> "options", options |-> Decode(codec.bytes).options])

\* Vec::from(options) that returns
DoEncode ==
  /\ codec.kind = "options"
  /\ \E e \in Encode(codec.options) :
       /\ e.status = "ok"
       /\ CodecEffect([kind |-> "bytes", bytes |-> e.bytes])

NextCodec ==
  \/ DoDecode
  \/ DoEncode

SpecCodec == InitCodec /\ [][NextCodec]_vars

\* ------------------------------------------------------------------ C24
\* C24 as claimed: every options record o the decoder returns is encoded
\* without a panic, and decoding any encoding of o returns o
C24_RoundTrip ==
  codec.kind = "options" =>
    \A e \in Encode(codec.options) :
      /\ e.status = "ok"
      /\ Decode(e.bytes) = Decoded("ok", codec.options)

\* ------------------------------------------------------------------ C25
\* C25 as claimed: decoding any byte string ends and does not panic, and
\* when the string ends in an option cut short the result is the record of
\* the options before it
C25_DecodeTotal ==
  codec.kind = "bytes" =>
    /\ Decode(codec.bytes).status = "ok"
    /\ \A s \in Concatenations(WholeOptions \cup OddOptions, MaxOptions - 1) :
         \A t \in TruncatedOptions :
           (codec.bytes = s \o t /\ Decode(s).status = "ok") =>
             Decode(codec.bytes) = Decode(s)

\* ------------------------------------------------------------------ C26
\* C26: in every reachable state and for every xid, handle_output(OFFER) can
\* take the transaction from BOUND to WAITING, and from any other state, or
\* when the xid has no transaction, every outcome of the call is an error
\* that leaves index and storage as they were; the same holds for
\* handle_input(REQUEST naming this server) with WAITING and REQUESTED. No
\* outcome of either call puts a transaction that was not BOUND into WAITING
\* or one that was not WAITING into REQUESTED
OnlyFrom(x, outcomes, from, to) ==
  LET before == StateOf(index, storage, x) IN
  /\ before = from => \E o \in outcomes : o.ok /\ StateOf(o.index, o.storage, x) = to
  /\ \A o \in outcomes :
       /\ before # from => (~o.ok /\ o.index = index /\ o.storage = storage)
       /\ (StateOf(o.index, o.storage, x) = to /\ before # to) => (before = from /\ o.ok)

C26_OfferAndRequestGuards ==
  \A x \in Xids :
    /\ OnlyFrom(x, HandleOutput(index, storage, OfferFor(x)), "BOUND", "WAITING")
    /\ OnlyFrom(x, HandleInput(index, storage, RequestFor(x, Some(ADDRESS)), now),
                "WAITING", "REQUESTED")

\* one transaction has been offered and requested, and another is still
\* PENDING, a state from which OFFER and REQUEST are refused
C26_Witness ==
  \E x, y \in Xids :
    /\ StateOf(index, storage, x) = "REQUESTED"
    /\ StateOf(index, storage, y) = "PENDING"
    /\ \A o \in HandleOutput(index, storage, OfferFor(y)) : ~o.ok

\* ------------------------------------------------------------------ C27
\* the events for which the state table has no transition from the state
\* the transaction of x is in
Untabled(x) ==
  LET before == StateOf(index, storage, x) IN
  IF before \notin States THEN {}
  ELSE (IF before # "BOUND" THEN {Call("handle_output", "OFFER", x, OfferFor(x), AnyLease)}
        ELSE {})
       \cup (IF before # "WAITING"
             THEN {Call("handle_input", "REQUEST(us)", x, RequestFor(x, Some(ADDRESS)), AnyLease)}
             ELSE {})
       \cup (IF before # "REQUESTED"
             THEN {Call("handle_output", "ACK", x, AckFor(x), AnyLease)}
             ELSE {})

\* C27 as claimed: in every reachable state, for every transaction and every
\* event the state table has no transition for from its state, the call
\* leaves the xid out of the index, leaves neither the transaction nor its
\* pending lease in the storage, and leaves the confirmed leases as they
\* were
C27_ViolationAborts ==
  \A x \in Xids :
    \A c \in Untabled(x) :
      \A o \in Outcomes(c) :
        /\ ~IsIn(o.index, x)
        /\ o.storage[index[x]] = Null
        /\ LeaseAddressOf(index, storage, x) # NO_LEASE =>
             o.storage[LeaseAddressOf(index, storage, x)] = Null
        /\ PoolAddrs(o.storage, LEASE_POOL_NAME) = PoolAddrs(storage, LEASE_POOL_NAME)

\* ------------------------------------------------------------------ C28
\* C28 as claimed: in every reachable state of a subnet no address of the
\* released list is in force_allocated, and no address is in the released
\* list twice
C28_ReleasedDisjointReserved ==
  /\ \A i \in 1..Len(subnet.released) : subnet.released[i] \notin subnet.force_allocated
  /\ \A i, j \in 1..Len(subnet.released) :
       i # j => subnet.released[i] # subnet.released[j]

\* ------------------------------------------------------------------ C29
\* C29: in every reachable state of a subnet, when released is not empty
\* allocate() returns its last element, removes it from the list and leaves
\* alloc_ptr as it was; when released is empty and network + alloc_ptr is
\* an address of the subnet below its last address, allocate() returns
\* network + alloc_ptr and adds one to alloc_ptr; force_allocated is left
\* as it was in both cases
C29_LifoThenPointer ==
  LET a == Allocate(subnet, overflow_checks) IN
  /\ subnet.released # <<>> =>
       /\ a.status = "ok"
       /\ a.ip = subnet.released[Len(subnet.released)]
       /\ a.subnet = [subnet EXCEPT !.released = SubSeq(@, 1, Len(@) - 1)]
  /\ (subnet.released = <<>> /\ subnet.alloc_ptr < SizeOf(subnet) - 1) =>
       /\ a.status = "ok"
       /\ a.ip = subnet.network_addr + subnet.alloc_ptr
       /\ a.subnet = [subnet EXCEPT !.alloc_ptr = @ + 1]

\* two different addresses have been allocated and freed: the next
\* allocate() returns the one freed last
C29_Witness ==
  /\ Len(subnet.released) = 2
  /\ subnet.released[1] # subnet.released[2]
  /\ subnet.alloc_ptr > 2
  /\ Allocate(subnet, overflow_checks).ip = subnet.released[2]

\* ------------------------------------------------------------------ C30
\* an address is currently free when it has been freed, or when it was never
\* allocated: it is not reserved, and it is the network address, which
\* allocate() starts after, or an address alloc_ptr has not reached
CurrentlyFree(s, ip) ==
  \/ \E i \in 1..Len(s.released) : s.released[i] = ip
  \/ /\ ip \notin s.force_allocated
     /\ (ip = s.network_addr \/ ip - s.network_addr >= s.alloc_ptr)

\* C30 as claimed: in every reachable state of a subnet and for every
\* address ip, free(ip) returns an error and leaves the subnet as it was
\* when ip is outside the subnet or currently free, and otherwise returns Ok
\* with ip appended to released and nothing else changed
C30_FreeErrors ==
  \A ip \in Ips :
    LET f == Free(subnet, ip, overflow_checks) IN
    IF ip < subnet.network_addr \/ ip > LastOf(subnet) \/ CurrentlyFree(subnet, ip)
    THEN f.status = "err" /\ f.subnet = subnet
    ELSE f.status = "ok" /\ f.subnet = [subnet EXCEPT !.released = Append(@, ip)]

====
